---- MODULE Spec2Model ----
(***************************************************************************)
(* ERPlora Bridge: the WebSocket command/event bridge between the Hub      *)
(* browser and the local hardware (src/erplora_bridge/server.py,           *)
(* server_android.py, protocol.py, hardware/printer.py, hardware/drawer.py,*)
(* hardware/discovery.py, hardware/scanner.py).                            *)
(*                                                                         *)
(* Scheduling.  The server is one asyncio event loop: the code between two *)
(* awaits of a coroutine runs without interleaving, so every action of a   *)
(* session handler or of a broadcast task below is one such slice.  The    *)
(* functions handed to loop.run_in_executor run on pool threads; each of   *)
(* their blocking calls (connect, render, close, sweep) is one action.     *)
(* The scanner callback runs on the capture thread of ScannerManager.      *)
(*                                                                         *)
(* A send (ws.send_text / ws.send) writes its frame when it is called and  *)
(* may suspend before it returns; on a peer that is gone it raises.        *)
(***************************************************************************)
EXTENDS Integers, Sequences, FiniteSets, TLC

\* ------------------------------------------------------------------ bounds
\* Commands the clients send in one run, over all connections.
MaxCommands == 2
\* Calls of the scanner callback in one run.
MaxScans == 1
\* Commands of one run in which the clients only discover and ask for status.
MaxCacheCommands == 3
\* Bursts of key events the capture thread gets in one run.
MaxFeeds == 4
\* Commands of one run in which the clients name printers of every kind.
MaxIdCommands == 1
\* The scanner timeout (config.scanner_timeout_ms), in units of the clock.
Timeout == 2
\* Commands of one run that begins with the startup of the server.
MaxBootCommands == 1
\* Commands of one run in which the two servers are compared.
MaxEquivCommands == 3
MaxFrameCommands == 2

\* ------------------------------------------------------------- printer ids
\* A printer_id is a string: here the sequence of its characters.  The
\* values below are ASCII without signs, blanks and underscores, for which
\* int() is the plain positional reading.
HexDigits ==
    <<"0", "1", "2", "3", "4", "5", "6", "7", "8", "9",
      "a", "b", "c", "d", "e", "f">>

HexCapitals ==
    <<"0", "1", "2", "3", "4", "5", "6", "7", "8", "9",
      "A", "B", "C", "D", "E", "F">>

\* ESCPOS_NETWORK_PORT (discovery.py:31)
ESCPOS_NETWORK_PORT == 9100

\* The value of a digit in a base, or -1.
DigitValue(ch, base) ==
    IF \E i \in 1..base : HexDigits[i] = ch \/ HexCapitals[i] = ch
    THEN (CHOOSE i \in 1..base : HexDigits[i] = ch \/ HexCapitals[i] = ch) - 1
    ELSE -1

\* The number a string of digits stands for in a base, or -1.
RECURSIVE Number(_, _)
Number(s, base) ==
    IF s = <<>> THEN 0
    ELSE LET d == DigitValue(s[Len(s)], base)
             r == Number(SubSeq(s, 1, Len(s) - 1), base)
         IN  IF d < 0 \/ r < 0 THEN -1 ELSE r * base + d

\* An int() that reads every number in base 10.
int_decimal(s, base) == IF s = <<>> THEN -1 ELSE Number(s, 10)

\* int(s, base) (discovery.py:268, 272): the number, with the prefix 0x
\* allowed in base 16; -1 stands for the ValueError.
int(s, base) ==
    LET body == IF base = 16 /\ Len(s) >= 2 /\ s[1] = "0" /\ s[2] \in {"x", "X"}
                THEN SubSeq(s, 3, Len(s)) ELSE s
    IN  IF body = <<>> THEN -1 ELSE Number(body, base)

\* The digits of a number in a base.
RECURSIVE ToDigits(_, _)
ToDigits(n, base) ==
    IF n < base THEN <<HexDigits[n + 1]>>
    ELSE ToDigits(n \div base, base) \o <<HexDigits[(n % base) + 1]>>

RECURSIVE ZeroPad(_, _)
ZeroPad(s, width) == IF Len(s) >= width THEN s ELSE ZeroPad(<<"0">> \o s, width)

\* f"{n:#06x}" (discovery.py:71): 0x and at least four hex digits.
hex06(n) == <<"0", "x">> \o ZeroPad(ToDigits(n, 16), 4)

\* f"{port}" (discovery.py:122, 176)
str(n) == ToDigits(n, 10)

\* Where a character is in a string first and last, or 0.
IndexOf(s, ch) ==
    IF \E i \in DOMAIN s : s[i] = ch
    THEN CHOOSE i \in DOMAIN s : s[i] = ch /\ \A j \in 1..(i - 1) : s[j] # ch
    ELSE 0

LastIndexOf(s, ch) ==
    IF \E i \in DOMAIN s : s[i] = ch
    THEN CHOOSE i \in DOMAIN s : s[i] = ch /\ \A j \in (i + 1)..Len(s) : s[j] # ch
    ELSE 0

\* s.split(ch, 1), s.rsplit(ch, 1) and s.split(ch)
split1(s, ch) ==
    IF IndexOf(s, ch) = 0 THEN <<s>>
    ELSE <<SubSeq(s, 1, IndexOf(s, ch) - 1),
           SubSeq(s, IndexOf(s, ch) + 1, Len(s))>>

rsplit1(s, ch) ==
    IF LastIndexOf(s, ch) = 0 THEN <<s>>
    ELSE <<SubSeq(s, 1, LastIndexOf(s, ch) - 1),
           SubSeq(s, LastIndexOf(s, ch) + 1, Len(s))>>

RECURSIVE split(_, _)
split(s, ch) ==
    IF IndexOf(s, ch) = 0 THEN <<s>>
    ELSE <<SubSeq(s, 1, IndexOf(s, ch) - 1)>>
            \o split(SubSeq(s, IndexOf(s, ch) + 1, Len(s)), ch)

\* The prefixes of the three transports.
UsbPrefix == <<"u", "s", "b">>
NetworkPrefix == <<"n", "e", "t", "w", "o", "r", "k">>
BluetoothPrefix == <<"b", "l", "u", "e", "t", "o", "o", "t", "h">>

\* The ids discovery makes (discovery.py:71, 122, 176, 214).
printer_id_usb(vendor_id, product_id) ==
    UsbPrefix \o <<":">> \o hex06(vendor_id) \o <<":">> \o hex06(product_id)

printer_id_network(ip, port) ==
    NetworkPrefix \o <<":">> \o ip \o <<":">> \o str(port)

printer_id_bluetooth(address) == BluetoothPrefix \o <<":">> \o address

\* What parse_printer_id returns: the transport and its parameters; `ok` is
\* false when it raises.
Target(ptype, vendor_id, product_id, host, port, address) ==
    [ok |-> TRUE, ptype |-> ptype, vendor_id |-> vendor_id,
     product_id |-> product_id, host |-> host, port |-> port,
     address |-> address]

NoTarget ==
    [ok |-> FALSE, ptype |-> "-", vendor_id |-> -1, product_id |-> -1,
     host |-> <<>>, port |-> -1, address |-> <<>>]

\* parse_printer_id (discovery.py:254-278).  `vid, pid = rest.split(':')`
\* raises unless there are two fields, int() raises on what is no number,
\* and a network id without a colon after the host gets the default port.
parse_printer_id(printer_id) ==
    LET parts == split1(printer_id, ":")
        ptype == parts[1]
        rest == IF Len(parts) > 1 THEN parts[2] ELSE <<>>
        fields == split(rest, ":")
        host_port == rsplit1(rest, ":")
        port == IF Len(host_port) > 1 THEN int(host_port[2], 10)
                ELSE ESCPOS_NETWORK_PORT
    IN  CASE ptype = UsbPrefix ->
               IF Len(fields) = 2 /\ int(fields[1], 16) >= 0
                                  /\ int(fields[2], 16) >= 0
               THEN Target("usb", int(fields[1], 16), int(fields[2], 16),
                           <<>>, -1, <<>>)
               ELSE NoTarget
          [] ptype = NetworkPrefix ->
               IF port >= 0
               THEN Target("network", -1, -1, host_port[1], port, <<>>)
               ELSE NoTarget
          [] ptype = BluetoothPrefix ->
               Target("bluetooth", -1, -1, <<>>, -1, rest)
          [] OTHER -> NoTarget

\* The address 192.168.1.100.
Ip4Sample ==
    <<"1", "9", "2", ".", "1", "6", "8", ".", "1", ".", "1", "0", "0">>

\* An Epson printer on USB (vendor 0x04b8, product 0x0202) and a printer on
\* the network.
UsbPrinter == printer_id_usb(1208, 514)
NetworkPrinter == printer_id_network(Ip4Sample, ESCPOS_NETWORK_PORT)

\* ---------------------------------------------------------------- universe
\* The WebSocket objects (one per client session).
Conns == {"ws1", "ws2", "ws3"}
\* The connections that send commands (the others only listen).
Clients == {"ws1", "ws2"}
\* printer_id strings in the format discovery produces (discovery.py:71).
Printers == {UsbPrinter, NetworkPrinter}
\* msg.get('printer_id') of a message without it (None; '' is falsy too).
NoPrinter == <<>>
\* msg.get('job_id') of a message without it.
NoJob == <<"absent">>
\* A job_id the client supplies; n is the number of the command.
ClientJob(n) == <<"client", n>>
\* Results a discovery sweep can return (lists of printer ids): none that is
\* the union of two others, so that a merged list shows.
Sweeps == {{}, {UsbPrinter}, {NetworkPrinter}}
\* A value that stands for "no value" in a record field.
None == "-"

VARIABLES
    pc,           \* pc[c]: where the session handler of connection c is
    alive,        \* alive[c]: the peer of c is there (a send to it succeeds)
    connections,  \* server.py:38, the registry (a Python set)
    cached,       \* PrinterManager._cached_printers (printer.py:21)
    cmd,          \* cmd[c]: the message handle_message is working on
    op,           \* op[c]: the function c's handler gave to run_in_executor
    hwOpen,       \* the printer connection objects that are open
    outbox,       \* outbox[c]: the events written to c that its peer has to read
    log,          \* log[c]: the sends the handler made for cmd[c], in order
    bc,           \* bc[b]: the b-th scan and the broadcast task made for it
    ncmd,         \* commands received so far
    scanner,      \* the ScannerManager (scanner.py:40-45) and what it reported
    server        \* which server runs, and how far its startup is

vars == <<pc, alive, connections, cached, cmd, op, hwOpen, outbox, log, bc,
          ncmd, scanner, server>>

\* ------------------------------------------------------------ protocol.py
\* The events (protocol.py:35-93): json.dumps of a dict with the event's
\* name and its fields.  The version field of status is the same in every
\* status event and is left out.
status_event(printers, scanner_active) ==
    [event |-> "status", printers |-> printers, scanner |-> scanner_active]
printers_event(printers) == [event |-> "printers", printers |-> printers]
print_complete_event(job) == [event |-> "print_complete", job_id |-> job]
print_error_event(job, error) ==
    [event |-> "print_error", job_id |-> job, error |-> error]
drawer_opened_event(printer) ==
    [event |-> "drawer_opened", printer_id |-> printer]
barcode_event(value, type) ==
    [event |-> "barcode", value |-> value, type |-> type]
keyboard_toggled_event(visible) ==
    [event |-> "keyboard_toggled", visible |-> visible]
error_event(message, code) ==
    [event |-> "error", message |-> message, code |-> code]

\* A message as it arrives: the shape of its JSON text and the fields the
\* handlers read with msg.get (server.py:204-207, 233, 251, 312).
Message(s, a, p, j, v) ==
    [shape |-> s, action |-> a, printer_id |-> p, job_id |-> j, visible |-> v]

\* The seven actions of protocol.py:16-24.
Actions ==
    {"get_status", "discover_printers", "print", "open_drawer", "test_print",
     "send_notification", "toggle_keyboard"}

\* The messages a client sends as its n-th command: texts that are no JSON,
\* JSON that is no object, objects without 'action' and 'event', objects
\* with 'event' only, and objects with an action (one of them unknown).
Inbound(n) ==
    {Message(s, None, NoPrinter, NoJob, TRUE) :
        s \in {"invalid_json", "not_object", "no_keys", "event_only"}}
    \cup {Message("object", a, NoPrinter, NoJob, TRUE) :
        a \in {"get_status", "discover_printers", "send_notification", "reboot"}}
    \cup {Message("object", "toggle_keyboard", NoPrinter, NoJob, v) :
        v \in BOOLEAN}
    \cup {Message("object", "print", p, j, TRUE) :
        p \in Printers \cup {NoPrinter}, j \in {NoJob, ClientJob(n)}}
    \cup {Message("object", a, p, NoJob, TRUE) :
        a \in {"open_drawer", "test_print"}, p \in Printers \cup {NoPrinter}}

\* A parser that takes every text for a message.
parse_message_lenient(raw) == [ok |-> TRUE, error |-> None]

\* parse_message (protocol.py:98-111): the dict, or the ValueError's text.
parse_message(raw) ==
    CASE raw.shape = "invalid_json" ->
            [ok |-> FALSE, error |-> "Invalid JSON"]
      [] raw.shape = "not_object" ->
            [ok |-> FALSE, error |-> "Message must be a JSON object"]
      [] raw.shape = "no_keys" ->
            [ok |-> FALSE, error |-> "Message must have 'action' or 'event' key"]
      [] OTHER -> [ok |-> TRUE, error |-> None]

\* generate_job_id (protocol.py:114-116): a fresh uuid4 for the n-th command.
generate_job_id(n) == <<"uuid", n>>

\* msg.get('job_id') or generate_job_id()  (server.py:206).
JobIdOf(raw, n) == IF raw.job_id = NoJob THEN generate_job_id(n) ELSE raw.job_id

\* ------------------------------------------------------------------ state
Tasks == 1..MaxScans

NoCmd ==
    [shape |-> None, action |-> None, printer_id |-> NoPrinter,
     job_id |-> NoJob, visible |-> TRUE, job |-> NoJob, n |-> 0]

\* A function given to run_in_executor: which one, how far its thread is,
\* the printer connection it holds, how its body and its close ended, what
\* it returned or raised, how often it opened and closed a connection, and
\* for the record whether another connection to its printer was open when
\* it opened its own, and the transport and parameters connect_printer got
\* from the printer_id.
NoOp ==
    [kind |-> None, stage |-> "idle", printer |-> NoPrinter, handle |-> <<>>,
     body |-> None, close |-> None, result |-> None, found |-> {},
     opens |-> 0, closes |-> 0, overlap |-> FALSE, target |-> NoTarget]

\* A scan and its broadcast task: how far it is ("idle": not scanned yet,
\* "dropped": the callback scheduled nothing, "scheduled", "iter": inside
\* the for loop, "done", "aborted": ended by an exception), the set iterator
\* of `for ws in connections` (the size it was created at, what is still
\* ahead of it, whether the set was changed under it), the local
\* `disconnected`, and for the record the registry the task started on,
\* whether the registry changed while it ran, and the connections its
\* difference_update took out of the registry.
NoTask ==
    [state |-> "idle", size |-> 0, todo |-> {}, dirty |-> FALSE,
     disconnected |-> {}, start |-> {}, mutated |-> FALSE, removed |-> {}]

\* ScannerManager.__init__ (scanner.py:40-45) and start() (scanner.py:51-65,
\* 134-176, 178-227): an empty buffer, no keystroke yet, _running set and
\* the capture thread listening.  `manager` says that scanner_manager is
\* not None (server.py:43, 76), `out` are the calls of the callback so far,
\* `keys` the keys of the last burst of key events, `held` the buffer that
\* burst found and `n` the number of bursts.
NoScanner ==
    [buffer |-> <<>>, last |-> 0, thread |-> "listening", out |-> <<>>,
     keys |-> <<>>, held |-> <<>>, n |-> 0, manager |-> TRUE,
     running |-> TRUE]

\* The desktop server (server.py) after its startup: the lifespan has run
\* up to its yield (server.py:72-83) and connections are accepted.
Desktop == [kind |-> "desktop", phase |-> "serving"]

Init ==
    /\ pc = [c \in Conns |-> "new"]
    /\ alive = [c \in Conns |-> TRUE]
    /\ connections = {}
    /\ cached = {}
    /\ cmd = [c \in Conns |-> NoCmd]
    /\ op = [c \in Conns |-> NoOp]
    /\ hwOpen = {}
    /\ outbox = [c \in Conns |-> <<>>]
    /\ log = [c \in Conns |-> <<>>]
    /\ bc = [b \in Tasks |-> NoTask]
    /\ ncmd = 0
    /\ scanner = NoScanner
    /\ server = Desktop

\* scanner_manager is not None and scanner_manager.is_running
\* (server.py:116, 132, 183; scanner.py:47-49).
scanner_active == scanner.manager /\ scanner.running

\* ------------------------------------------------- the registry (a set)
\* What a change of `connections` does to the set iterators of the running
\* broadcasts: an iterator whose set has another size raises at its next
\* step; one whose set is back at its size goes on over the hash table as it
\* is now, which holds the elements in another order.
Mutate(new) ==
    [b \in Tasks |->
        IF bc[b].state = "iter" /\ new # connections
        THEN [bc[b] EXCEPT !.dirty = TRUE, !.mutated = TRUE, !.todo = {}]
        ELSE bc[b]]

\* connections.add(ws)  (server.py:124, server_android.py:56)
RegistryAdd(c) == connections \cup {c}

\* A registry whose discard puts back what is not there.
RegistryDiscardToggling(c) ==
    IF c \in connections THEN connections \ {c} ELSE connections \cup {c}

\* connections.discard(ws)  (server.py:144, server_android.py:75)
RegistryDiscard(c) == connections \ {c}

\* ------------------------------------------------------- session handler
\* A handler that gives up control between the add and the snapshot: the
\* first slice adds the connection, the second one sends the snapshot.
RegisterThenYield(c) ==
    /\ pc[c] = "new"
    /\ server.phase = "serving"
    /\ IF c \notin connections
       THEN /\ connections' = RegistryAdd(c)
            /\ bc' = Mutate(connections')
            /\ UNCHANGED <<outbox, pc>>
       ELSE /\ UNCHANGED <<connections, bc>>
            /\ IF alive[c]
               THEN /\ outbox' = [outbox EXCEPT
                            ![c] = Append(@, status_event(cached, scanner_active))]
                    /\ pc' = [pc EXCEPT ![c] = "recv"]
               ELSE /\ outbox' = outbox
                    /\ pc' = [pc EXCEPT ![c] = "closed"]
    /\ UNCHANGED <<server, scanner, alive, cached, cmd, op, hwOpen, log, ncmd>>

\* websocket_endpoint / handle_client up to the receive loop (server.py:
\* 123-133, server_android.py:56-65): after the handshake, add to the
\* registry and send the status snapshot, with no await in between.  The
\* send is outside the try: when it raises, the handler ends without the
\* finally of server.py:143-144.  Connections are accepted once the startup
\* of the lifespan is over (server.py:83).
Register(c) ==
    /\ pc[c] = "new"
    /\ server.phase = "serving"
    /\ connections' = RegistryAdd(c)
    /\ bc' = Mutate(connections')
    /\ IF alive[c]
       THEN /\ outbox' = [outbox EXCEPT
                    ![c] = Append(@, status_event(cached, scanner_active))]
            /\ pc' = [pc EXCEPT ![c] = "recv"]
       ELSE /\ outbox' = outbox
            /\ pc' = [pc EXCEPT ![c] = "closed"]
    /\ UNCHANGED <<server, scanner, alive, cached, cmd, op, hwOpen, log, ncmd>>

\* A server that cancels the handler of a peer that goes away, and with it
\* the function the handler waits for.
DieCancelling(c) ==
    /\ pc[c] \in {"new", "recv", "exec"}
    /\ alive[c]
    /\ alive' = [alive EXCEPT ![c] = FALSE]
    /\ op' = [op EXCEPT ![c] = IF pc[c] = "exec" THEN NoOp ELSE @]
    /\ UNCHANGED <<server, scanner, pc, connections, cached, cmd, hwOpen, outbox, log, bc, ncmd>>

\* The peer goes away (closes its tab, loses the network).  The handler is
\* not told: it learns of it at its next send or receive (server.py:137,
\* 139-145), and a function that is with the pool goes on.
Die(c) ==
    /\ pc[c] \in {"new", "recv", "exec"}
    /\ alive[c]
    /\ alive' = [alive EXCEPT ![c] = FALSE]
    /\ UNCHANGED <<server, scanner, pc, connections, cached, cmd, op, hwOpen, outbox, log, bc,
                   ncmd>>

\* The session handler ends with an exception of the loop body: the except
\* clauses and the finally of server.py:139-145.
EndSession(c) ==
    /\ pc' = [pc EXCEPT ![c] = "closed"]
    /\ connections' = RegistryDiscard(c)
    /\ bc' = Mutate(connections')
    /\ outbox' = [outbox EXCEPT ![c] = <<>>]

\* ws.receive_text() raises WebSocketDisconnect  (server.py:137, 139-145)
Disconnected(c) ==
    /\ pc[c] = "recv"
    /\ ~alive[c]
    /\ EndSession(c)
    /\ UNCHANGED <<server, scanner, alive, cached, cmd, op, hwOpen, log, ncmd>>

\* The sends that end a handler.  `events` are the events it sends: the
\* first one, and when that send raises inside a try, the one of the except
\* clause.  A send that raises outside a try ends the session.
Finish(c, events) ==
    LET n == IF alive[c] THEN (IF events = <<>> THEN 0 ELSE 1) ELSE Len(events)
    IN  /\ log' = [log EXCEPT
                ![c] = [i \in 1..n |-> [ev |-> events[i], sent |-> alive[c]]]]
        /\ IF alive[c] \/ events = <<>>
           THEN /\ outbox' = [outbox EXCEPT
                        ![c] = IF events = <<>> THEN <<>> ELSE <<events[1]>>]
                /\ pc' = [pc EXCEPT ![c] = "recv"]
                /\ UNCHANGED <<connections, bc>>
           ELSE EndSession(c)

\* loop.run_in_executor(None, f, ...): the handler waits for the function.
Submit(c, kind, printer) ==
    /\ op' = [op EXCEPT ![c] = [NoOp EXCEPT !.kind = kind, !.stage = "queued",
                                            !.printer = printer]]
    /\ pc' = [pc EXCEPT ![c] = "exec"]
    /\ log' = [log EXCEPT ![c] = <<>>]
    /\ outbox' = [outbox EXCEPT ![c] = <<>>]
    /\ UNCHANGED <<connections, bc>>

\* A check of printer_id that lets every value through.
MissingNever(printer_id) == FALSE

\* `not printer_id` (server.py:209, 235, 254): the message has no printer_id,
\* or a null or empty one.
Missing(printer_id) == printer_id = NoPrinter

\* A get_status that fetches the list through the executor.
handle_get_status_sweeping(c) == Submit(c, "discover_all", NoPrinter)

\* handle_get_status (server.py:177-184, server_android.py:90-96): the
\* cached list and the scanner state, sent at once.
handle_get_status(c) ==
    /\ Finish(c, <<status_event(cached, scanner_active)>>)
    /\ op' = [op EXCEPT ![c] = NoOp]

\* f"Unknown action: {action}" (server.py:174); a message without 'action'
\* has action None.
UnknownActionText(action) ==
    "Unknown action: " \o (IF action = None THEN "None" ELSE action)

\* A dispatcher that drops what it does not know.
handle_unknown_silently(c, action) ==
    /\ Finish(c, <<>>)
    /\ op' = [op EXCEPT ![c] = NoOp]

\* The else branch of handle_message (server.py:173-174,
\* server_android.py:172-173).
handle_unknown(c, action) ==
    /\ Finish(c, <<error_event(UnknownActionText(action), "unknown_action")>>)
    /\ op' = [op EXCEPT ![c] = NoOp]

\* handle_message up to its first await that waits (server.py:148-174 and the
\* head of each handler; server_android.py:79-173).
handle_message(c, msg) ==
    LET parsed == parse_message(msg)
        action == msg.action
    IN  IF ~parsed.ok
        THEN Finish(c, <<error_event(parsed.error, "parse_error")>>) /\ op' = [op EXCEPT ![c] = NoOp]
        ELSE CASE action = "get_status" -> handle_get_status(c)
               [] action = "discover_printers" ->
                    Submit(c, "discover_all", NoPrinter)
               [] action = "print" ->
                    IF Missing(msg.printer_id)
                    THEN /\ Finish(c, <<print_error_event(msg.job,
                                          "No printer_id specified")>>)
                         /\ op' = [op EXCEPT ![c] = NoOp]
                    ELSE Submit(c, "print_document", msg.printer_id)
               [] action = "open_drawer" ->
                    IF Missing(msg.printer_id)
                    THEN /\ Finish(c, <<error_event("No printer_id specified",
                                                    "missing_param")>>)
                         /\ op' = [op EXCEPT ![c] = NoOp]
                    ELSE Submit(c, "open_drawer", msg.printer_id)
               [] action = "test_print" ->
                    IF Missing(msg.printer_id)
                    THEN /\ Finish(c, <<print_error_event(msg.job,
                                          "No printer_id specified")>>)
                         /\ op' = [op EXCEPT ![c] = NoOp]
                    ELSE Submit(c, "test_print", msg.printer_id)
               [] action = "send_notification" ->
                    Submit(c, "_show_notification", NoPrinter)
               [] action = "toggle_keyboard" ->
                    Submit(c, "_toggle_keyboard", NoPrinter)
               [] OTHER -> handle_unknown(c, action)

\* An event loop whose handlers call their blocking functions themselves:
\* the loop thread is inside the function until the function returns.
LoopBlockedInline ==
    \E a \in Conns : op[a].stage \in {"queued", "opened", "ran"}

\* The loop thread is held by a blocking function.  The handlers give every
\* blocking function to the default pool and await the future
\* (loop.run_in_executor(None, ...), server.py:193, 216, 241, 260, 279, 316;
\* server_android.py:101, 118, 132, 145, 155, 165), so the loop thread never
\* runs one.
LoopBlocked == FALSE

\* A session that makes a task of every message (create_task(handle_message))
\* and goes back to receive at once.
ReadyToReceiveSpawning(c) == pc[c] \in {"recv", "exec"}

\* The session is at ws.receive_text() (server.py:137; the `async for` of
\* server_android.py:67): it gets there when the handler of the message
\* before has returned, since the loop awaits handle_message itself
\* (server.py:138, server_android.py:69).
ReadyToReceive(c) == pc[c] = "recv"

\* raw = await ws.receive_text(); await handle_message(ws, raw)
\* (server.py:137-138).  The message may have been sent by a peer that is
\* gone by now.  The slice runs when the loop thread is free.
ReceiveWithin(c, inputs, limit) ==
    /\ ReadyToReceive(c)
    /\ c \in Clients
    /\ ~LoopBlocked
    /\ ncmd < limit
    /\ \E raw \in inputs :
         LET n == ncmd + 1
             job == IF raw.action = "test_print" THEN generate_job_id(n)
                    ELSE JobIdOf(raw, n)
             msg == [shape |-> raw.shape, action |-> raw.action,
                     printer_id |-> raw.printer_id, job_id |-> raw.job_id,
                     visible |-> raw.visible, job |-> job, n |-> n]
         IN  /\ cmd' = [cmd EXCEPT ![c] = msg]
             /\ handle_message(c, msg)
    /\ ncmd' = ncmd + 1
    /\ UNCHANGED <<server, scanner, alive, cached, hwOpen>>

\* A client sends one of `inputs`, within the commands of a run.
ReceiveFrom(c, inputs) == ReceiveWithin(c, inputs, MaxCommands)

\* A client sends any message.
Receive(c) == ReceiveFrom(c, Inbound(ncmd + 1))

\* The print commands among the messages (server.py:163-164).
PrintJobs(n) == {raw \in Inbound(n) : raw.action = "print"}

\* A client sends a print command.
ReceivePrint(c) == ReceiveFrom(c, PrintJobs(ncmd + 1))

\* The print and test_print commands, with and without a job_id of the
\* client's (server.py:163-168).
JobCommands(n) ==
    {Message("object", a, p, j, TRUE) :
        a \in {"print", "test_print"}, p \in Printers \cup {NoPrinter},
        j \in {NoJob, ClientJob(n)}}

\* The commands that read and write the printer cache (server.py:159-162).
CacheCommands(n) ==
    {raw \in Inbound(n) : raw.action \in {"get_status", "discover_printers"}}

\* A client sends get_status or discover_printers.
ReceiveCache(c) == ReceiveWithin(c, CacheCommands(ncmd + 1), MaxCacheCommands)

\* A client sends a print or a test_print command.
ReceiveJob(c) == ReceiveFrom(c, JobCommands(ncmd + 1))

\* An IPv6 address (zeroconf's parsed_addresses gives those too,
\* discovery.py:169-173) and a Bluetooth address.
Ip6Sample == <<"f", "e", "8", "0", ":", ":", "1">>

BluetoothSample ==
    <<"A", "A", ":", "B", "B", ":", "C", "C", ":", "D", "D", ":", "E", "E",
      ":", "F", "F">>

\* The ids the discovery functions make: USB devices of known vendors
\* (discovery.py:14-27, 71), printers found by mDNS or by the port scan
\* (discovery.py:122, 176) and Bluetooth devices (discovery.py:214).
ProducedIds ==
    {printer_id_usb(vendor_id, product_id) :
        vendor_id \in {1208, 1305, 8401}, product_id \in {1, 514, 65535}}
    \cup {printer_id_network(ip, port) :
        ip \in {Ip4Sample, Ip6Sample}, port \in {ESCPOS_NETWORK_PORT, 631}}
    \cup {printer_id_bluetooth(BluetoothSample)}

\* printer_id values no discovery makes: another transport, no colon at
\* all, a USB id without the product, with a field that is no hex number
\* and with three fields, a network id whose port is no number, one with an
\* empty port, one without a port, one without a host, and a Bluetooth id
\* without an address.
OtherIds ==
    {<<"s", "e", "r", "i", "a", "l", ":", "C", "O", "M", "1">>,
     UsbPrefix,
     UsbPrefix \o <<":">> \o hex06(1208),
     UsbPrefix \o <<":", "0", "x", "0", "4", "g", "8", ":">> \o hex06(514),
     printer_id_usb(1208, 514) \o <<":", "1">>,
     NetworkPrefix \o <<":">> \o Ip4Sample \o <<":", "l", "p">>,
     NetworkPrefix \o <<":">> \o Ip4Sample \o <<":">>,
     NetworkPrefix \o <<":">> \o Ip4Sample,
     NetworkPrefix \o <<":", ":">> \o str(ESCPOS_NETWORK_PORT),
     BluetoothPrefix \o <<":">>}

\* The commands that name a printer (server.py:163-168), with a printer_id
\* of either set.
IdCommands(n) ==
    {Message("object", a, p, NoJob, TRUE) :
        a \in {"print", "open_drawer", "test_print"},
        p \in ProducedIds \cup OtherIds}

\* A client sends a command that names a printer.
ReceiveId(c) == ReceiveWithin(c, IdCommands(ncmd + 1), MaxIdCommands)

\* ------------------------------------------- the functions on pool threads
HardwareKinds == {"print_document", "test_print", "open_drawer"}

\* parse_printer_id for the printer_id values of the commands, worked out
\* once for all of them.
ParsedIds ==
    [printer_id \in Printers \cup ProducedIds \cup OtherIds |->
        parse_printer_id(printer_id)]

\* A connect_printer that keeps one connection object per printer and hands
\* the open one to the next caller.
connect_printer_pooled(c) ==
    IF \E h \in hwOpen : h[1] = op[c].printer
    THEN CHOOSE h \in hwOpen : h[1] = op[c].printer
    ELSE <<op[c].printer, c, cmd[c].n>>

\* connect_printer (discovery.py:281-298): a new escpos / serial object for
\* the printer, made for this call: the printer, the caller, the command.
connect_printer(c) == <<op[c].printer, c, cmd[c].n>>

\* printer = connect_printer(printer_id)  (printer.py:40, 65; drawer.py:32):
\* parse_printer_id (discovery.py:287) or the transport's constructor
\* (discovery.py:289-296) may raise, and nothing keeps a second connection
\* to a printer from being opened.  The constructor is called with what
\* parse_printer_id returned.
Connect(c) ==
    /\ op[c].stage = "queued"
    /\ op[c].kind \in HardwareKinds
    /\ \/ /\ ParsedIds[op[c].printer].ok
          /\ hwOpen' = hwOpen \cup {connect_printer(c)}
          /\ op' = [op EXCEPT ![c].stage = "opened",
                               ![c].handle = connect_printer(c),
                               ![c].target = ParsedIds[op[c].printer],
                               ![c].opens = @ + 1,
                               ![c].overlap =
                                   \E h \in hwOpen : h[1] = op[c].printer]
       \/ /\ hwOpen' = hwOpen
          /\ op' = [op EXCEPT ![c].stage = "finished",
                               ![c].target = ParsedIds[op[c].printer],
                               ![c].result = "connect_error"]
    /\ UNCHANGED <<server, scanner, pc, alive, connections, cached, cmd, outbox, log, bc, ncmd>>

\* A function without the finally clause: an exception of the body leaves
\* it at once.
AfterBodyNoFinally(body) == IF body = "ok" THEN "ran" ELSE "finished"

\* Where the function goes after the body of its try (printer.py:42-57,
\* 66-79; drawer.py:33-36): to the finally clause, however the body ended.
AfterBody(body) == "ran"

\* The body of the try: the renderer, the test page or the drawer kick,
\* writing to the connection the function opened.
Body(c) ==
    /\ op[c].stage = "opened"
    /\ \E body \in {"ok", "raised"} :
         /\ body = "ok" => op[c].handle \in hwOpen
         /\ op' = [op EXCEPT ![c].body = body,
                              ![c].stage = AfterBody(body),
                              ![c].result = IF AfterBody(body) = "finished"
                                            THEN "body_error" ELSE @]
    /\ UNCHANGED <<server, scanner, pc, alive, connections, cached, cmd, hwOpen, outbox, log,
                   bc, ncmd>>

\* A finally clause that lets the exception of close() out.
OutcomeCloseRaises(body, close) ==
    IF close = "raised" THEN "close_error"
    ELSE IF body = "ok" THEN "ok" ELSE "body_error"

\* What the function returns or raises after
\*     finally: try: printer.close() except Exception: pass
\* (printer.py:57-61, 79-83; drawer.py:36-40).
Outcome(body, close) == IF body = "ok" THEN "ok" ELSE "body_error"

\* The finally clause: close is called, and may raise.
Close(c) ==
    /\ op[c].stage = "ran"
    /\ \E close \in {"ok", "raised"} :
         op' = [op EXCEPT ![c].close = close,
                          ![c].closes = @ + 1,
                          ![c].stage = "finished",
                          ![c].result = Outcome(op[c].body, close)]
    /\ hwOpen' = hwOpen \ {op[c].handle}
    /\ UNCHANGED <<server, scanner, pc, alive, connections, cached, cmd, outbox, log, bc, ncmd>>

\* discover_all (discovery.py:34-46) on its thread: the list it returns.
\* Its parts catch their own exceptions (discovery.py:86-87, 189-192): when
\* the USB or the mDNS sweep raises, the fault is logged and the function
\* returns what was found up to then.
Discover(c) ==
    /\ op[c].stage = "queued"
    /\ op[c].kind = "discover_all"
    /\ \E found \in Sweeps, body \in {"ok", "raised"} :
         op' = [op EXCEPT ![c].stage = "finished", ![c].result = "ok",
                          ![c].body = body, ![c].found = found]
    /\ UNCHANGED <<server, scanner, pc, alive, connections, cached, cmd, hwOpen, outbox, log,
                   bc, ncmd>>

\* _show_notification / _toggle_keyboard (server.py:286-307, 324-363;
\* server_android.py:197-253) on their thread.
Platform(c) ==
    /\ op[c].stage = "queued"
    /\ op[c].kind \in {"_show_notification", "_toggle_keyboard"}
    /\ \E result \in {"ok", "platform_error"} :
         op' = [op EXCEPT ![c].stage = "finished", ![c].result = result]
    /\ UNCHANGED <<server, scanner, pc, alive, connections, cached, cmd, hwOpen, outbox, log,
                   bc, ncmd>>

\* A cache that adds the new list to the old one.
update_cache_merge(printers) == cached \cup printers

\* A cache that keeps its first list.
update_cache_keep(printers) == IF cached = {} THEN printers ELSE cached

\* PrinterManager.update_cache (printer.py:27-29): the new list replaces
\* the old one.
update_cache(printers) == printers

\* A server whose handlers all store the list of their operation.
cache_after_any(o) == update_cache(o.found)

\* The cache when the handler of operation o goes on: of the handlers, only
\* handle_discover_printers calls update_cache (server.py:196); the others
\* never name the cache (server.py:201-321).
cache_after(o) ==
    IF o.kind = "discover_all" THEN update_cache(o.found) ELSE cached

\* The handler after `await loop.run_in_executor(...)`: the sends of the try
\* and of the except clause of each handler (server.py:193-198, 223-228,
\* 242-246, 265-269, 280-283, 317-321).
Resume(c) ==
    LET o == op[c]
        m == cmd[c]
    IN  /\ pc[c] = "exec"
        /\ o.stage = "finished"
        /\ op' = [op EXCEPT ![c].stage = "reaped"]
        /\ CASE o.kind \in {"print_document", "test_print"} ->
                  /\ IF o.result = "ok"
                     THEN Finish(c, <<print_complete_event(m.job),
                                      print_error_event(m.job, "send_error")>>)
                     ELSE Finish(c, <<print_error_event(m.job, o.result)>>)
                  /\ cached' = cache_after(o)
             [] o.kind = "open_drawer" ->
                  /\ IF o.result = "ok"
                     THEN Finish(c, <<drawer_opened_event(m.printer_id),
                                      error_event("send_error", "drawer_error")>>)
                     ELSE Finish(c, <<error_event(o.result, "drawer_error")>>)
                  /\ cached' = cache_after(o)
             [] o.kind = "_toggle_keyboard" ->
                  /\ IF o.result = "ok"
                     THEN Finish(c, <<keyboard_toggled_event(m.visible),
                                      error_event("send_error", "keyboard_error")>>)
                     ELSE Finish(c, <<error_event(o.result, "keyboard_error")>>)
                  /\ cached' = cache_after(o)
             [] o.kind = "_show_notification" ->
                  /\ IF o.result = "ok"
                     THEN Finish(c, <<>>)
                     ELSE Finish(c, <<error_event(o.result,
                                                  "notification_error")>>)
                  /\ cached' = cache_after(o)
             [] o.kind = "discover_all" ->
                  /\ cached' = cache_after(o)
                  /\ Finish(c, <<printers_event(o.found)>>)
        /\ UNCHANGED <<server, scanner, alive, cmd, hwOpen, ncmd>>

\* ------------------------------------------------------ server_android.py
\* The Android server after run_server has entered serve()
\* (server_android.py:176-181).  It has no scanner manager.
Android == [kind |-> "android", phase |-> "serving"]

\* handle_client up to its loop (server_android.py:54-65), with `flag` for
\* the scanner_active of the snapshot.
handle_client_with(c, flag) ==
    /\ pc[c] = "new"
    /\ server.phase = "serving"
    /\ connections' = RegistryAdd(c)
    /\ bc' = Mutate(connections')
    /\ IF alive[c]
       THEN /\ outbox' = [outbox EXCEPT
                    ![c] = Append(@, status_event(cached, flag))]
            /\ pc' = [pc EXCEPT ![c] = "recv"]
       ELSE /\ outbox' = outbox
            /\ pc' = [pc EXCEPT ![c] = "closed"]
    /\ UNCHANGED <<server, scanner, alive, cached, cmd, op, hwOpen, log, ncmd>>

\* scanner_active=False  (server_android.py:61-65)
handle_client(c) == handle_client_with(c, FALSE)

\* `async for raw in websocket` ends or raises ConnectionClosed, and the
\* finally discards the connection (server_android.py:67-76).
handle_client_closed(c) ==
    /\ pc[c] = "recv"
    /\ ~alive[c]
    /\ pc' = [pc EXCEPT ![c] = "closed"]
    /\ connections' = RegistryDiscard(c)
    /\ bc' = Mutate(connections')
    /\ outbox' = [outbox EXCEPT ![c] = <<>>]
    /\ UNCHANGED <<server, scanner, alive, cached, cmd, op, hwOpen, log, ncmd>>

\* A test_print that takes the job_id of the message when there is one.
job_id_android_client(raw, n) ==
    IF raw.job_id = NoJob THEN generate_job_id(n) ELSE raw.job_id

\* The job_id of the n-th command: msg.get('job_id') or generate_job_id()
\* for print (server_android.py:109), generate_job_id() for test_print
\* (server_android.py:139).
job_id_android(raw, n) ==
    IF raw.action = "test_print" THEN generate_job_id(n)
    ELSE IF raw.job_id = NoJob THEN generate_job_id(n) ELSE raw.job_id

\* handle_message up to its first await that waits (server_android.py:
\* 79-173), with `flag` for the scanner_active of the status event.
handle_message_android_with(c, msg, flag) ==
    IF msg.shape \in {"invalid_json", "not_object", "no_keys"}
    THEN /\ Finish(c, <<error_event(parse_message(msg).error, "parse_error")>>)
         /\ op' = [op EXCEPT ![c] = NoOp]
    ELSE CASE msg.action = "get_status" ->
                /\ Finish(c, <<status_event(cached, flag)>>)
                /\ op' = [op EXCEPT ![c] = NoOp]
           [] msg.action = "discover_printers" ->
                Submit(c, "discover_all", NoPrinter)
           [] msg.action = "print" ->
                IF msg.printer_id = NoPrinter
                THEN /\ Finish(c, <<print_error_event(msg.job,
                                      "No printer_id specified")>>)
                     /\ op' = [op EXCEPT ![c] = NoOp]
                ELSE Submit(c, "print_document", msg.printer_id)
           [] msg.action = "open_drawer" ->
                IF msg.printer_id = NoPrinter
                THEN /\ Finish(c, <<error_event("No printer_id specified",
                                                "missing_param")>>)
                     /\ op' = [op EXCEPT ![c] = NoOp]
                ELSE Submit(c, "open_drawer", msg.printer_id)
           [] msg.action = "test_print" ->
                IF msg.printer_id = NoPrinter
                THEN /\ Finish(c, <<print_error_event(msg.job,
                                      "No printer_id specified")>>)
                     /\ op' = [op EXCEPT ![c] = NoOp]
                ELSE Submit(c, "test_print", msg.printer_id)
           [] msg.action = "send_notification" ->
                Submit(c, "_show_notification", NoPrinter)
           [] msg.action = "toggle_keyboard" ->
                Submit(c, "_toggle_keyboard", NoPrinter)
           [] OTHER ->
                /\ Finish(c, <<error_event(
                        "Unknown action: " \o (IF msg.action = None
                                               THEN "None" ELSE msg.action),
                        "unknown_action")>>)
                /\ op' = [op EXCEPT ![c] = NoOp]

\* The loop of handle_client takes the next message and awaits
\* handle_message (server_android.py:67-69).
receive_android_with(c, inputs, limit, flag) ==
    /\ pc[c] = "recv"
    /\ c \in Clients
    /\ ncmd < limit
    /\ \E raw \in inputs :
         LET n == ncmd + 1
             msg == [shape |-> raw.shape, action |-> raw.action,
                     printer_id |-> raw.printer_id, job_id |-> raw.job_id,
                     visible |-> raw.visible, job |-> job_id_android(raw, n),
                     n |-> n]
         IN  /\ cmd' = [cmd EXCEPT ![c] = msg]
             /\ handle_message_android_with(c, msg, flag)
    /\ ncmd' = ncmd + 1
    /\ UNCHANGED <<server, scanner, alive, cached, hwOpen>>

\* _show_notification_android / _toggle_keyboard_android on their thread
\* (server_android.py:197-253): they log what pyjnius raises and raise it
\* again.  op.kind names the part the function has, which is the one of
\* _show_notification and _toggle_keyboard.
platform_android(c) ==
    /\ op[c].stage = "queued"
    /\ op[c].kind \in {"_show_notification", "_toggle_keyboard"}
    /\ \E result \in {"ok", "platform_error"} :
         op' = [op EXCEPT ![c].stage = "finished", ![c].result = result]
    /\ UNCHANGED <<server, scanner, pc, alive, connections, cached, cmd, hwOpen,
                   outbox, log, bc, ncmd>>

\* handle_message after `await loop.run_in_executor(...)`
\* (server_android.py:101-104, 117-123, 131-135, 144-148, 154-159, 164-170).
resume_android(c) ==
    /\ pc[c] = "exec"
    /\ op[c].stage = "finished"
    /\ op' = [op EXCEPT ![c].stage = "reaped"]
    /\ CASE op[c].kind = "discover_all" ->
              /\ cached' = update_cache(op[c].found)
              /\ Finish(c, <<printers_event(op[c].found)>>)
         [] op[c].kind \in {"print_document", "test_print"} ->
              /\ cached' = cached
              /\ IF op[c].result = "ok"
                 THEN Finish(c, <<print_complete_event(cmd[c].job),
                                  print_error_event(cmd[c].job, "send_error")>>)
                 ELSE Finish(c, <<print_error_event(cmd[c].job, op[c].result)>>)
         [] op[c].kind = "open_drawer" ->
              /\ cached' = cached
              /\ IF op[c].result = "ok"
                 THEN Finish(c, <<drawer_opened_event(cmd[c].printer_id),
                                  error_event("send_error", "drawer_error")>>)
                 ELSE Finish(c, <<error_event(op[c].result, "drawer_error")>>)
         [] op[c].kind = "_show_notification" ->
              /\ cached' = cached
              /\ IF op[c].result = "ok"
                 THEN Finish(c, <<>>)
                 ELSE Finish(c, <<error_event(op[c].result,
                                              "notification_error")>>)
         [] op[c].kind = "_toggle_keyboard" ->
              /\ cached' = cached
              /\ IF op[c].result = "ok"
                 THEN Finish(c, <<keyboard_toggled_event(cmd[c].visible),
                                  error_event("send_error", "keyboard_error")>>)
                 ELSE Finish(c, <<error_event(op[c].result, "keyboard_error")>>)
    /\ UNCHANGED <<server, scanner, alive, cmd, hwOpen, ncmd>>

\* ---------------------------------------------------------------- broadcast
\* The values the scanner reports, one per call of its callback, with the
\* type _detect_barcode_type gives them (scanner.py:94-109).
ScanValues == <<"5901234123457", "96385074", "ABC1234", "4006381333931">>
ScanTypes == <<"EAN13", "EAN8", "CODE39", "EAN13">>

\* msg = barcode_event(value, barcode_type) for the b-th scan (server.py:60)
Barcode(b) == barcode_event(ScanValues[b], ScanTypes[b])

\* A broadcast that forgets the difference_update.
SurvivorsKeepAll(conns, disconnected) == conns

\* connections.difference_update(disconnected)  (server.py:54)
Survivors(conns, disconnected) == conns \ disconnected

\* The record of a task that has ended.
Ended(it, how) == [NoTask EXCEPT !.state = how, !.mutated = it.mutated]

\* One slice of broadcast (server.py:46-54, server_android.py:43-51) from the
\* iterator `it`: the next() of `for ws in connections`, then either the
\* send to the connection it yields, up to the point where the send may
\* suspend, or at the end of the loop the difference_update.  next() raises
\* RuntimeError when the set's size is not the one the iterator started at.
Iterate(b, it) ==
    IF Cardinality(connections) # it.size
    THEN /\ bc' = [bc EXCEPT ![b] = Ended(it, "aborted")]
         /\ UNCHANGED <<connections, outbox>>
    ELSE \E todo \in (IF it.dirty THEN SUBSET connections ELSE {it.todo}) :
           IF todo = {}
           THEN /\ connections' = Survivors(connections, it.disconnected)
                /\ bc' = [Mutate(connections') EXCEPT
                            ![b] = [Ended(it, "done") EXCEPT
                                      !.removed = connections \ connections']]
                /\ outbox' = outbox
           ELSE \E ws \in todo :
                  /\ bc' = [bc EXCEPT ![b] =
                        [it EXCEPT
                           !.todo = todo \ {ws},
                           !.dirty = FALSE,
                           !.disconnected =
                               IF alive[ws] THEN @ ELSE @ \cup {ws}]]
                  /\ outbox' = [outbox EXCEPT ![ws] =
                        IF alive[ws] THEN Append(@, Barcode(b)) ELSE @]
                  /\ connections' = connections

\* The task made by ensure_future starts: `disconnected = set()`, the
\* iterator over the registry as it is now, and the first slice.
BroadcastStart(b) ==
    /\ bc[b].state = "scheduled"
    /\ Iterate(b, [bc[b] EXCEPT !.state = "iter",
                                !.size = Cardinality(connections),
                                !.todo = connections,
                                !.start = connections])
    /\ UNCHANGED <<server, scanner, pc, alive, cached, cmd, op, hwOpen, log, ncmd>>

\* The task goes on after a send that suspended.
BroadcastStep(b) ==
    /\ bc[b].state = "iter"
    /\ Iterate(b, bc[b])
    /\ UNCHANGED <<server, scanner, pc, alive, cached, cmd, op, hwOpen, log, ncmd>>

\* ------------------------------------------------------------- the scanner
\* The threads on_barcode_scanned can be called on: the capture thread of
\* ScannerManager (scanner.py:89 under scanner.py:175, 226), which is where
\* the program calls it, and the thread of the event loop.
Threads == {"capture", "loop"}

\* asyncio.get_event_loop() (server.py:62): the running loop on the loop's
\* own thread; on a thread that has no event loop it raises RuntimeError.
get_event_loop(thread) == IF thread = "loop" THEN "running" ELSE "RuntimeError"

\* on_barcode_scanned (server.py:57-64), called with the b-th scan:
\* ensure_future(broadcast(msg)) when it got a loop and the loop is running.
on_barcode_scanned(b, thread) ==
    /\ bc[b].state = "idle"
    /\ \A a \in Tasks : a < b => bc[a].state # "idle"
    /\ bc' = [bc EXCEPT ![b] =
            [NoTask EXCEPT
               !.state = IF get_event_loop(thread) = "running"
                         THEN "scheduled" ELSE "dropped"]]
    /\ UNCHANGED <<server, scanner, pc, alive, connections, cached, cmd, op, hwOpen, outbox,
                   log, ncmd>>

\* ------------------------------------------------------- the scan detector
\* `char in ('\n', '\r')`  (scanner.py:83)
Terminators == {"\n", "\r"}

\* The characters str.strip() takes off (scanner.py:86).
Whitespace == {" ", "\t", "\n", "\r"}

Digits == {"0", "1", "2", "3", "4", "5", "6", "7", "8", "9"}

LowerCase ==
    <<"a", "b", "c", "d", "e", "f", "g", "h", "i", "j", "k", "l", "m",
      "n", "o", "p", "q", "r", "s", "t", "u", "v", "w", "x", "y", "z">>

UpperCase ==
    <<"A", "B", "C", "D", "E", "F", "G", "H", "I", "J", "K", "L", "M",
      "N", "O", "P", "Q", "R", "S", "T", "U", "V", "W", "X", "Y", "Z">>

\* '0123456789ABCDEFGHIJKLMNOPQRSTUVWXYZ-. $/+%'  (scanner.py:107)
Code39Chars ==
    Digits \cup {UpperCase[i] : i \in DOMAIN UpperCase}
           \cup {"-", ".", " ", "$", "/", "+", "%"}

\* str.upper() of one character.
upper(ch) ==
    IF \E i \in DOMAIN LowerCase : LowerCase[i] = ch
    THEN UpperCase[CHOOSE i \in DOMAIN LowerCase : LowerCase[i] = ch]
    ELSE ch

\* str.isdigit(): at least one character, and digits only.
isdigit(value) == value # <<>> /\ \A i \in DOMAIN value : value[i] \in Digits

\* str.strip(): without the whitespace at both ends.
RECURSIVE lstrip(_)
lstrip(value) ==
    IF value # <<>> /\ Head(value) \in Whitespace
    THEN lstrip(Tail(value)) ELSE value

RECURSIVE rstrip(_)
rstrip(value) ==
    IF value # <<>> /\ value[Len(value)] \in Whitespace
    THEN rstrip(SubSeq(value, 1, Len(value) - 1)) ELSE value

strip(value) == rstrip(lstrip(value))

\* A detector that takes up to 42 characters for CODE39.
detect_barcode_type_short(value) ==
    IF isdigit(value) /\ Len(value) \in {13, 8, 12, 14}
    THEN CASE Len(value) = 13 -> "EAN13"
           [] Len(value) = 8 -> "EAN8"
           [] Len(value) = 12 -> "UPC-A"
           [] Len(value) = 14 -> "GTIN-14"
    ELSE IF Len(value) < 43
            /\ \A i \in DOMAIN value : upper(value[i]) \in Code39Chars
         THEN "CODE39"
         ELSE "CODE128"

\* ScannerManager._detect_barcode_type (scanner.py:94-109).  A value of
\* digits whose length is none of the four falls through to the CODE39 test.
detect_barcode_type(value) ==
    IF isdigit(value) /\ Len(value) \in {13, 8, 12, 14}
    THEN CASE Len(value) = 13 -> "EAN13"
           [] Len(value) = 8 -> "EAN8"
           [] Len(value) = 12 -> "UPC-A"
           [] Len(value) = 14 -> "GTIN-14"
    ELSE IF Len(value) <= 43
            /\ \A i \in DOMAIN value : upper(value[i]) \in Code39Chars
         THEN "CODE39"
         ELSE "CODE128"

\* A detector that gives up only what is too short for a barcode.
AfterGapShortOnly(buffer, elapsed) ==
    IF Len(buffer) < 4 /\ elapsed > Timeout THEN <<>> ELSE buffer

\* A detector that never gives a buffer up.
AfterGapMerging(buffer, elapsed) == buffer

\* A detector that gives the buffer up at the timeout already.
AfterGapAtLimit(buffer, elapsed) ==
    IF buffer # <<>> /\ elapsed >= Timeout THEN <<>> ELSE buffer

\* if self._buffer and (now - self._last_keystroke_time) > self._timeout:
\*     self._buffer = ''                                  (scanner.py:78-79)
AfterGap(buffer, elapsed) ==
    IF buffer # <<>> /\ elapsed > Timeout THEN <<>> ELSE buffer

\* A detector that takes every buffer for a barcode.
LongEnoughAlways(buffer) == TRUE

\* len(self._buffer) >= 4  (scanner.py:85), of the buffer as it is, before
\* the strip.
LongEnough(buffer) == Len(buffer) >= 4

\* ScannerManager._on_char (scanner.py:73-92) at time `now` on the detector
\* s.  `callback` is how self._callback ends ("returned" or "raised"); when
\* it raises, line 90 is not reached and the exception leaves _on_char, and
\* `survives` says whether the capture thread outlives it: the evdev loop
\* (scanner.py:170-175) lets the exception out and its thread ends, the
\* keyboard hook (scanner.py:198-207) is a ctypes callback whose exception is
\* reported and dropped.
on_char(s, char, now, callback, survives) ==
    LET buffer == AfterGap(s.buffer, now - s.last)
        barcode == strip(buffer)
        barcode_type == detect_barcode_type(barcode)
        t == [s EXCEPT !.last = now]
    IN  IF char \in Terminators
        THEN IF LongEnough(buffer)
             THEN [t EXCEPT
                     !.out = Append(@, [value |-> barcode,
                                        type |-> barcode_type]),
                     !.buffer = IF callback = "returned" THEN <<>> ELSE buffer,
                     !.thread = IF callback = "returned" \/ survives
                                THEN @ ELSE "ended"]
             ELSE [t EXCEPT !.buffer = <<>>]
        ELSE [t EXCEPT !.buffer = Append(buffer, char)]

\* The key events of one burst: _on_char for each key while the capture
\* thread is there.  The first key comes at time `now`, the others with it.
RECURSIVE Feed(_, _, _, _, _)
Feed(s, keys, now, callback, survives) ==
    IF keys = <<>> \/ s.thread # "listening"
    THEN s
    ELSE Feed(on_char(s, Head(keys), now, callback, survives), Tail(keys),
              now, callback, survives)

\* The keys a scanner or a keyboard sends in one burst: single keys, the
\* line terminators, runs of the keys of a barcode, and a run of blanks.
Bursts ==
    {<<"5">>, <<"A">>, <<" ">>, <<"\n">>, <<"\r">>,
     <<"5", "9", "0">>, <<"A", "1", "B", "2">>, <<" ", " ", " ", " ">>,
     <<"5", "9", "0", "1", "2", "3", "4", "1", "2", "3", "4", "5", "7">>}

\* The time between the last key of a burst and the first key of the next:
\* at the timeout, and over it.
Gaps == {Timeout, Timeout + 1}

\* The capture thread gets the key events of a burst (scanner.py:170-175,
\* 198-207) and calls _on_char for each.  The callback is on_barcode_scanned
\* (server.py:76-79), which returns or raises by the thread it runs on
\* (server.py:62).  The first key event comes long after time 0.
Keys(keys, gap, thread, survives) ==
    /\ scanner.thread = "listening"
    /\ scanner.n < MaxFeeds
    /\ scanner.n = 0 => gap > Timeout
    /\ scanner' =
         [Feed(scanner, keys, scanner.last + gap,
               IF get_event_loop(thread) = "running"
               THEN "returned" ELSE "raised",
               survives)
            EXCEPT !.keys = keys, !.held = scanner.buffer, !.n = @ + 1]
    /\ UNCHANGED <<server, pc, alive, connections, cached, cmd, op, hwOpen,
                   outbox, log, bc, ncmd>>

\* ------------------------------------------------- startup and shutdown
\* What platform.system() returns (scanner.py:56-65).
Systems == {"Darwin", "Linux", "Windows", "Other"}

\* The manager before the lifespan has made and started it: scanner_manager
\* is None (server.py:43) and there is no thread.
Unstarted ==
    [NoScanner EXCEPT !.manager = FALSE, !.running = FALSE, !.thread = "none"]

\* ScannerManager.start (scanner.py:51-65) on the manager s: nothing when it
\* runs already; else the listener of the platform sets _running and starts
\* its thread, the monitor loop on macOS (scanner.py:122-132) and the capture
\* function on Linux and Windows (scanner.py:136, 175-176, 180, 226-227); on
\* any other platform there is only a warning.
start(s, system) ==
    IF s.running THEN s
    ELSE CASE system = "Darwin" ->
                [s EXCEPT !.running = TRUE, !.thread = "monitor"]
           [] system \in {"Linux", "Windows"} ->
                [s EXCEPT !.running = TRUE, !.thread = "starting"]
           [] OTHER -> s

\* ScannerManager.stop (scanner.py:67-71): _running is cleared, and the
\* thread is waited for two seconds at most.
stop(s) == [s EXCEPT !.running = FALSE]

\* The server before its startup.
Booting == [kind |-> "desktop", phase |-> "starting"]

\* The startup of the lifespan (server.py:70-83): when the configuration
\* enables the scanner, the manager is made and started.
lifespan_startup ==
    /\ server.phase = "starting"
    /\ \E scanner_enabled \in BOOLEAN, system \in Systems :
         scanner' = IF scanner_enabled
                    THEN start([scanner EXCEPT !.manager = TRUE], system)
                    ELSE scanner
    /\ server' = [server EXCEPT !.phase = "serving"]
    /\ UNCHANGED <<pc, alive, connections, cached, cmd, op, hwOpen, outbox,
                   log, bc, ncmd>>

\* The function of the capture thread up to its loop.  On Linux it returns
\* when evdev cannot be imported or no device has a scanner's name
\* (scanner.py:139-143, 155-157), and an exception of evdev.InputDevice or of
\* read_loop (no permission for the device) ends the thread
\* (scanner.py:146, 167); on Windows every exception is caught and logged and
\* the function returns (scanner.py:183-224).  Else it listens.
Capture ==
    /\ scanner.thread = "starting"
    /\ \E outcome \in {"listening", "returned", "raised"} :
         scanner' = [scanner EXCEPT !.thread = outcome]
    /\ UNCHANGED <<server, pc, alive, connections, cached, cmd, op, hwOpen,
                   outbox, log, bc, ncmd>>

\* The thread sees that _running is cleared and returns (scanner.py:168-169,
\* 215, 231).
Leave ==
    /\ scanner.thread \in {"listening", "monitor"}
    /\ ~scanner.running
    /\ scanner' = [scanner EXCEPT !.thread = "returned"]
    /\ UNCHANGED <<server, pc, alive, connections, cached, cmd, op, hwOpen,
                   outbox, log, bc, ncmd>>

\* The shutdown of the lifespan (server.py:85-90), when the sessions are
\* over: the manager, if there is one, is stopped.
lifespan_shutdown ==
    /\ server.phase = "serving"
    /\ \A c \in Conns : pc[c] \in {"new", "closed"}
    /\ scanner' = IF scanner.manager THEN stop(scanner) ELSE scanner
    /\ server' = [server EXCEPT !.phase = "stopped"]
    /\ UNCHANGED <<pc, alive, connections, cached, cmd, op, hwOpen, outbox,
                   log, bc, ncmd>>

\* A client sends any message, within the commands of a run from startup.
ReceiveBoot(c) == ReceiveWithin(c, Inbound(ncmd + 1), MaxBootCommands)

\* ---------------------------------------------------------- specifications
\* The command side: two clients, their commands and the pool threads.
Next ==
    \/ \E c \in Clients : Register(c)
    \/ \E c \in Clients : Die(c)
    \/ \E c \in Clients : Disconnected(c)
    \/ \E c \in Clients : Receive(c)
    \/ \E c \in Clients : Connect(c)
    \/ \E c \in Clients : Body(c)
    \/ \E c \in Clients : Close(c)
    \/ \E c \in Clients : Discover(c)
    \/ \E c \in Clients : Platform(c)
    \/ \E c \in Clients : Resume(c)

Spec == Init /\ [][Next]_vars

\* The hub side: three connections that come and go, the scans and the
\* broadcast tasks.
HubNext ==
    \/ \E c \in Conns : Register(c)
    \/ \E c \in Conns : Die(c)
    \/ \E c \in Conns : Disconnected(c)
    \/ \E b \in Tasks, t \in Threads : on_barcode_scanned(b, t)
    \/ \E b \in Tasks : BroadcastStart(b)
    \/ \E b \in Tasks : BroadcastStep(b)

HubSpec == Init /\ [][HubNext]_vars

\* The connection whose commands are followed beside the scans.
FrameClients == {"ws1"}

\* A client sends any message, within the commands of a run with scans.
ReceiveFrame(c) == ReceiveWithin(c, Inbound(ncmd + 1), MaxFrameCommands)

\* The whole server: two connections that come and go, the commands of one
\* of them with the pool threads that serve them, and beside them the scans
\* and the broadcast tasks.
FrameNext ==
    \/ \E c \in Clients : Register(c)
    \/ \E c \in Clients : Die(c)
    \/ \E c \in Clients : Disconnected(c)
    \/ \E c \in FrameClients : ReceiveFrame(c)
    \/ \E c \in FrameClients : Connect(c)
    \/ \E c \in FrameClients : Body(c)
    \/ \E c \in FrameClients : Close(c)
    \/ \E c \in FrameClients : Discover(c)
    \/ \E c \in FrameClients : Platform(c)
    \/ \E c \in FrameClients : Resume(c)
    \/ \E b \in Tasks, t \in Threads : on_barcode_scanned(b, t)
    \/ \E b \in Tasks : BroadcastStart(b)
    \/ \E b \in Tasks : BroadcastStep(b)

FrameSpec == Init /\ [][FrameNext]_vars

\* The print side: two clients that send print commands.  The pool runs
\* every function it was given and the loop resumes every handler whose
\* function has ended; clients send and leave as they like.
PrintNext ==
    \/ \E c \in Clients : Register(c)
    \/ \E c \in Clients : Die(c)
    \/ \E c \in Clients : Disconnected(c)
    \/ \E c \in Clients : ReceivePrint(c)
    \/ \E c \in Clients : Connect(c)
    \/ \E c \in Clients : Body(c)
    \/ \E c \in Clients : Close(c)
    \/ \E c \in Clients : Resume(c)

\* The cache side: two clients that run discovery sweeps and read the status.
CacheNext ==
    \/ \E c \in Clients : Register(c)
    \/ \E c \in Clients : Die(c)
    \/ \E c \in Clients : Disconnected(c)
    \/ \E c \in Clients : ReceiveCache(c)
    \/ \E c \in Clients : Discover(c)
    \/ \E c \in Clients : Resume(c)

CacheSpec == Init /\ [][CacheNext]_vars

\* The job side: two clients that send print and test_print commands.
JobNext ==
    \/ \E c \in Clients : Register(c)
    \/ \E c \in Clients : Die(c)
    \/ \E c \in Clients : Disconnected(c)
    \/ \E c \in Clients : ReceiveJob(c)
    \/ \E c \in Clients : Connect(c)
    \/ \E c \in Clients : Body(c)
    \/ \E c \in Clients : Close(c)
    \/ \E c \in Clients : Resume(c)

JobSpec == Init /\ [][JobNext]_vars

\* Buffers to classify: runs of one character (a digit, a capital, a small
\* letter, a sign of the CODE39 set), such runs with one other character in
\* them, and digits between blanks, in the lengths around the ones the
\* detector tells apart; and the value of the scenario "AB-12.34".
SampleLengths == {4, 5, 7, 8, 9, 11, 12, 13, 14, 15, 16, 17, 42, 43, 44, 46, 47}

SamplePatterns ==
    {"digits", "capitals", "small", "signs", "blanks", "digits_letter",
     "digits_lower", "capitals_other", "padded_digits", "padded_capitals"}

Sample(length, pattern) ==
    [i \in 1..length |->
        CASE pattern = "digits" -> "7"
          [] pattern = "capitals" -> "K"
          [] pattern = "small" -> "k"
          [] pattern = "signs" -> IF i % 2 = 0 THEN "$" ELSE "%"
          [] pattern = "blanks" -> " "
          [] pattern = "digits_letter" -> IF i = 1 THEN "A" ELSE "7"
          [] pattern = "digits_lower" -> IF i = length THEN "z" ELSE "7"
          [] pattern = "capitals_other" -> IF i = 2 THEN "_" ELSE "K"
          [] pattern = "padded_digits" ->
                IF i <= 2 \/ i = length THEN " " ELSE "7"
          [] pattern = "padded_capitals" ->
                IF i <= 2 \/ i = length THEN " " ELSE "K"]

Samples ==
    {Sample(length, pattern) :
        length \in SampleLengths, pattern \in SamplePatterns}
    \cup {<<"A", "B", "-", "1", "2", ".", "3", "4">>}

\* The detector after a first burst of keys that filled its buffer with one
\* of the samples.
ClassifyInit ==
    /\ pc = [c \in Conns |-> "new"]
    /\ alive = [c \in Conns |-> TRUE]
    /\ connections = {}
    /\ cached = {}
    /\ cmd = [c \in Conns |-> NoCmd]
    /\ op = [c \in Conns |-> NoOp]
    /\ hwOpen = {}
    /\ outbox = [c \in Conns |-> <<>>]
    /\ log = [c \in Conns |-> <<>>]
    /\ bc = [b \in Tasks |-> NoTask]
    /\ ncmd = 0
    /\ server = Desktop
    /\ \E value \in Samples :
          scanner = [Feed(NoScanner, value, Timeout + 1, "returned", TRUE)
                        EXCEPT !.keys = value, !.n = 1]

\* The line terminators that end a scan.
ClassifyNext ==
    \E char \in Terminators, gap \in Gaps, thread \in Threads,
       survives \in BOOLEAN :
        Keys(<<char>>, gap, thread, survives)

\* The classification side: a buffer, and the line terminator that has it
\* classified and reported.
ClassifySpec == ClassifyInit /\ [][ClassifyNext]_vars

\* The printer_id side: two clients that name printers by ids of every kind.
IdNext ==
    \/ \E c \in Clients : Register(c)
    \/ \E c \in Clients : Die(c)
    \/ \E c \in Clients : Disconnected(c)
    \/ \E c \in Clients : ReceiveId(c)
    \/ \E c \in Clients : Connect(c)
    \/ \E c \in Clients : Body(c)
    \/ \E c \in Clients : Close(c)
    \/ \E c \in Clients : Resume(c)

IdSpec == Init /\ [][IdNext]_vars

\* The scanner side: the capture thread and the keys it gets.
ScanNext ==
    \E keys \in Bursts, gap \in Gaps, thread \in Threads, survives \in BOOLEAN :
        Keys(keys, gap, thread, survives)

ScanSpec == Init /\ [][ScanNext]_vars

\* The server from its startup to its shutdown: the lifespan, the capture
\* thread of the scanner, two clients and their commands.
BootInit ==
    /\ pc = [c \in Conns |-> "new"]
    /\ alive = [c \in Conns |-> TRUE]
    /\ connections = {}
    /\ cached = {}
    /\ cmd = [c \in Conns |-> NoCmd]
    /\ op = [c \in Conns |-> NoOp]
    /\ hwOpen = {}
    /\ outbox = [c \in Conns |-> <<>>]
    /\ log = [c \in Conns |-> <<>>]
    /\ bc = [b \in Tasks |-> NoTask]
    /\ ncmd = 0
    /\ scanner = Unstarted
    /\ server = Booting

BootNext ==
    \/ lifespan_startup
    \/ Capture
    \/ Leave
    \/ lifespan_shutdown
    \/ \E c \in Clients : Register(c)
    \/ \E c \in Clients : Die(c)
    \/ \E c \in Clients : Disconnected(c)
    \/ \E c \in Clients : ReceiveBoot(c)
    \/ \E c \in Clients : Connect(c)
    \/ \E c \in Clients : Body(c)
    \/ \E c \in Clients : Close(c)
    \/ \E c \in Clients : Discover(c)
    \/ \E c \in Clients : Platform(c)
    \/ \E c \in Clients : Resume(c)

BootSpec == BootInit /\ [][BootNext]_vars

\* One client on the desktop server, with and without a scanner manager
\* (config.scanner_enabled, server.py:75), and one on the Android server:
\* the same messages and the same outcomes of the hardware for each.
EquivClients == {"ws1"}

\* The messages of every shape and action, a test_print with a job_id of the
\* client's among them.
EquivCommands(n) == Inbound(n) \cup JobCommands(n)

EquivInit ==
    /\ pc = [c \in Conns |-> "new"]
    /\ alive = [c \in Conns |-> TRUE]
    /\ connections = {}
    /\ cached = {}
    /\ cmd = [c \in Conns |-> NoCmd]
    /\ op = [c \in Conns |-> NoOp]
    /\ hwOpen = {}
    /\ outbox = [c \in Conns |-> <<>>]
    /\ log = [c \in Conns |-> <<>>]
    /\ bc = [b \in Tasks |-> NoTask]
    /\ ncmd = 0
    /\ \/ server = Desktop /\ scanner = NoScanner
       \/ server = Desktop /\ scanner = Unstarted
       \/ server = Android /\ scanner = Unstarted

\* The steps of the desktop server (server.py).
DesktopNext ==
    \/ \E c \in EquivClients : Register(c)
    \/ \E c \in EquivClients : Die(c)
    \/ \E c \in EquivClients : Disconnected(c)
    \/ \E c \in EquivClients :
          ReceiveWithin(c, EquivCommands(ncmd + 1), MaxEquivCommands)
    \/ \E c \in EquivClients : Connect(c)
    \/ \E c \in EquivClients : Body(c)
    \/ \E c \in EquivClients : Close(c)
    \/ \E c \in EquivClients : Discover(c)
    \/ \E c \in EquivClients : Platform(c)
    \/ \E c \in EquivClients : Resume(c)

\* The steps of the Android server (server_android.py), with `flag` for the
\* scanner field of its status events; the functions of printer.py,
\* drawer.py and discovery.py are the ones the desktop server runs.
AndroidNextWith(flag) ==
    \/ \E c \in EquivClients : handle_client_with(c, flag)
    \/ \E c \in EquivClients : Die(c)
    \/ \E c \in EquivClients : handle_client_closed(c)
    \/ \E c \in EquivClients :
          receive_android_with(c, EquivCommands(ncmd + 1),
                               MaxEquivCommands, flag)
    \/ \E c \in EquivClients : Connect(c)
    \/ \E c \in EquivClients : Body(c)
    \/ \E c \in EquivClients : Close(c)
    \/ \E c \in EquivClients : Discover(c)
    \/ \E c \in EquivClients : platform_android(c)
    \/ \E c \in EquivClients : resume_android(c)

\* The Android server as it is: scanner_active=False.
AndroidNext == AndroidNextWith(FALSE)

\* The server of the run is the desktop one, the Android one.
OnDesktop == server.kind = "desktop"
OnAndroid == server.kind = "android"

\* A step of the server that runs: DesktopNext on the desktop server,
\* AndroidNext on the Android server.
EquivNext ==
    \/ \E c \in EquivClients : OnDesktop /\ Register(c)
    \/ \E c \in EquivClients : OnDesktop /\ Die(c)
    \/ \E c \in EquivClients : OnDesktop /\ Disconnected(c)
    \/ \E c \in EquivClients :
          OnDesktop /\ ReceiveWithin(c, EquivCommands(ncmd + 1), MaxEquivCommands)
    \/ \E c \in EquivClients : OnDesktop /\ Connect(c)
    \/ \E c \in EquivClients : OnDesktop /\ Body(c)
    \/ \E c \in EquivClients : OnDesktop /\ Close(c)
    \/ \E c \in EquivClients : OnDesktop /\ Discover(c)
    \/ \E c \in EquivClients : OnDesktop /\ Platform(c)
    \/ \E c \in EquivClients : OnDesktop /\ Resume(c)
    \/ \E c \in EquivClients : OnAndroid /\ handle_client(c)
    \/ \E c \in EquivClients : OnAndroid /\ Die(c)
    \/ \E c \in EquivClients : OnAndroid /\ handle_client_closed(c)
    \/ \E c \in EquivClients :
          OnAndroid /\ receive_android_with(c, EquivCommands(ncmd + 1),
                                            MaxEquivCommands, FALSE)
    \/ \E c \in EquivClients : OnAndroid /\ Connect(c)
    \/ \E c \in EquivClients : OnAndroid /\ Body(c)
    \/ \E c \in EquivClients : OnAndroid /\ Close(c)
    \/ \E c \in EquivClients : OnAndroid /\ Discover(c)
    \/ \E c \in EquivClients : OnAndroid /\ platform_android(c)
    \/ \E c \in EquivClients : OnAndroid /\ resume_android(c)

EquivSpec == EquivInit /\ [][EquivNext]_vars

PrintSpec ==
    /\ Init
    /\ [][PrintNext]_vars
    /\ \A c \in Clients :
          /\ WF_vars(Connect(c))
          /\ WF_vars(Body(c))
          /\ WF_vars(Close(c))
          /\ WF_vars(Resume(c))

\* ------------------------------------------------------------- properties
\* The sends of the handler of c's command that reached the peer.
Delivered(c) == {i \in DOMAIN log[c] : log[c][i].sent}

\* The names of the events the handler of c's command gave to a send, whether
\* the send went through or raised.
Emitted(c) == {log[c][i].ev.event : i \in DOMAIN log[c]}

\* The handler of c's command has returned and the session goes on.
Handled(c) == cmd[c].n > 0 /\ pc[c] = "recv"

\* C1: for each of the seven recognized actions, a command received on a
\* connection whose peer stays there gets exactly one terminal reply (a
\* completion event or an error event) from its handler, whether the hardware
\* operation succeeded or failed.
C1_ExactlyOneReply ==
    \A c \in Clients :
        (Handled(c) /\ cmd[c].action \in Actions /\ alive[c])
            => Cardinality(Delivered(c)) = 1

\* C2: print_complete and print_error are never both emitted for the same
\* job_id, also when the operation succeeded and the send of print_complete
\* raises.
C2_OneTerminalEventPerJob ==
    \A c \in Clients :
        ~ \E i, j \in DOMAIN log[c] :
              /\ log[c][i].ev.event = "print_complete"
              /\ log[c][j].ev.event = "print_error"
              /\ log[c][i].ev.job_id = log[c][j].ev.job_id

\* C3: at no time do two executor operations hold an open hardware connection
\* to the same printer_id.
C3_MutualExclusionPerPrinter ==
    \A g, h \in hwOpen : g[1] = h[1] => g = h

\* The terminal events of c's print job that reached the peer.
TerminalEvents(c) ==
    {i \in Delivered(c) :
        /\ log[c][i].ev.event \in {"print_complete", "print_error"}
        /\ log[c][i].ev.job_id = cmd[c].job}

\* What holds of every print job, alone or next to another one on the same
\* printer: it opens at most one connection, an object made for this job
\* that no other job holds, closes it once if it opened it, and its client,
\* if it is still there when the handler ends, has got one terminal event.
PrintJobIsolated(c) ==
    LET o == op[c]
    IN  /\ o.opens <= 1
        /\ o.closes <= o.opens
        /\ o.handle # <<>> =>
              /\ o.handle = <<o.printer, c, cmd[c].n>>
              /\ \A d \in Clients \ {c} : op[d].handle # o.handle
        /\ o.stage \in {"opened", "ran"} => o.handle \in hwOpen
        /\ o.stage \in {"finished", "reaped"} =>
              /\ o.opens = (IF o.result = "connect_error" THEN 0 ELSE 1)
              /\ o.closes = o.opens
        /\ o.stage = "reaped" =>
              /\ Cardinality(TerminalEvents(c)) <= 1
              /\ alive[c] => Cardinality(TerminalEvents(c)) = 1

\* C4: of two print jobs for the same printer_id submitted concurrently from
\* two connections, each one comes to its end with exactly one terminal
\* event, the printer connection is opened once and closed once per job, and
\* no connection object opened for one job is used by the other.
C4_ConcurrentJobsSamePrinter ==
    /\ [](\A c \in Clients : op[c].kind = "print_document" => PrintJobIsolated(c))
    /\ \A c \in Clients : (pc[c] = "exec") ~> (pc[c] # "exec")

\* Two print jobs on one printer that held their connections at the same
\* time, both ended with print_complete delivered, two opens and two closes.
C4_Witness ==
    /\ op["ws1"].printer = op["ws2"].printer
    /\ op["ws1"].overlap \/ op["ws2"].overlap
    /\ \A c \in Clients :
          /\ op[c].kind = "print_document"
          /\ op[c].stage = "reaped"
          /\ op[c].opens = 1 /\ op[c].closes = 1
          /\ alive[c]
          /\ Emitted(c) = {"print_complete"}
          /\ Cardinality(TerminalEvents(c)) = 1

\* C5: once print_document, test_print or open_drawer has opened a printer
\* connection, close is called on it before the operation returns or raises;
\* so when no executor operation is running no printer connection is open.
C5_ClosedOnEveryExit ==
    /\ \A h \in hwOpen :
          \E c \in Clients : op[c].handle = h /\ op[c].stage \in {"opened", "ran"}
    /\ \A c \in Clients :
          op[c].stage \in {"finished", "reaped"} => op[c].closes = op[c].opens
    /\ (\A c \in Clients : op[c].stage \notin {"queued", "opened", "ran"})
          => hwOpen = {}

\* An operation whose body raised has returned, with its connection closed.
C5_Witness ==
    /\ hwOpen = {}
    /\ \E c \in Clients :
          /\ op[c].stage = "finished"
          /\ op[c].body = "raised"
          /\ op[c].opens = 1 /\ op[c].closes = 1

\* The event a hardware job ends with when only its body counts.
ExpectedEvent(c) ==
    LET ok == op[c].body = "ok"
    IN  CASE op[c].kind \in {"print_document", "test_print"} ->
                IF ok THEN print_complete_event(cmd[c].job)
                ELSE print_error_event(cmd[c].job, "body_error")
          [] op[c].kind = "open_drawer" ->
                IF ok THEN drawer_opened_event(cmd[c].printer_id)
                ELSE error_event("body_error", "drawer_error")

\* C6: a failure of close never changes the outcome of the job: a body that
\* succeeded ends with the completion event, a body that raised E with the
\* error event for E, whether close raises or not.
C6_CloseFailureKeepsOutcome ==
    \A c \in Clients :
        (/\ op[c].kind \in HardwareKinds
         /\ op[c].stage = "reaped"
         /\ op[c].body \in {"ok", "raised"}
         /\ alive[c])
            => log[c] = <<[ev |-> ExpectedEvent(c), sent |-> TRUE]>>

\* Close raised after a body that succeeded and after one that raised, and
\* each client got the event of its body.
C6_Witness ==
    /\ op["ws1"].close = "raised" /\ op["ws1"].body = "ok"
    /\ op["ws2"].close = "raised" /\ op["ws2"].body = "raised"
    /\ \A c \in Clients :
          /\ op[c].stage = "reaped"
          /\ alive[c]
          /\ log[c] = <<[ev |-> ExpectedEvent(c), sent |-> TRUE]>>

\* Connection c has been sent the barcode event of the b-th scan.
Got(c, b) == \E i \in DOMAIN outbox[c] : outbox[c][i] = Barcode(b)

\* C7: a broadcast over a registry in which any subset of the connections is
\* dead, and which nothing else changes meanwhile, attempts delivery to every
\* registered connection, delivers to every live one, and leaves the registry
\* equal to the previous one minus exactly the connections whose send failed.
C7_BroadcastPartialFailure ==
    [][\A b \in Tasks :
          (/\ bc[b].state \in {"scheduled", "iter"}
           /\ bc'[b].state = "done"
           /\ ~bc'[b].mutated)
              => LET failed == bc[b].disconnected
                 IN  /\ connections' = connections \ failed
                     /\ \A c \in connections :
                           IF c \in failed THEN ~alive[c] ELSE Got(c, b)
                     /\ \A c \in connections :
                           alive[c] => Got(c, b) /\ c \in connections']_vars

\* Three connections were registered, one of them dead: the broadcast has
\* ended, the two live ones have the event and are registered, and the dead
\* one, whose session handler has not ended yet, is out of the registry.
C7_Witness ==
    /\ bc[1].state = "done"
    /\ ~bc[1].mutated
    /\ \E d \in Conns :
          /\ ~alive[d] /\ pc[d] = "recv" /\ d \notin connections
          /\ connections = Conns \ {d}
          /\ \A c \in connections : alive[c] /\ Got(c, 1)

\* C8: when a connection registers or unregisters while a broadcast is
\* suspended inside a send, the broadcast does not abort, and every
\* connection that was registered for its whole duration and can receive
\* gets the event.
C8_BroadcastSurvivesMutation ==
    [][\A b \in Tasks :
          (bc[b].state = "iter" /\ bc'[b].state \in {"done", "aborted"})
              => /\ bc'[b].state = "done"
                 /\ \A c \in bc[b].start \cap connections :
                       alive[c] => Got(c, b)]_vars

\* C9: the first message a newly registered connection receives is its
\* status snapshot; no barcode event is delivered to it before, however the
\* registration interleaves with a broadcast.
C9_SnapshotFirst ==
    \A c \in Conns : outbox[c] # <<>> => outbox[c][1].event = "status"

\* A connection that registered while a broadcast was under way, and got the
\* barcode of that broadcast after its snapshot.
C9_Witness ==
    \E b \in Tasks, c \in Conns :
        /\ bc[b].state = "iter"
        /\ c \notin bc[b].start
        /\ Len(outbox[c]) = 2
        /\ outbox[c][1].event = "status"
        /\ outbox[c][2] = Barcode(b)

\* C10: every scan the scanner reports on its capture thread is forwarded
\* as a barcode broadcast to the connections registered and live at that
\* time: when the callback has run, a broadcast task for the scan is
\* scheduled, unless no live connection is registered.
C10_EveryScanForwarded ==
    [][\A b \in Tasks :
          (bc[b].state = "idle" /\ bc'[b].state # "idle")
              => \/ bc'[b].state = "scheduled"
                 \/ \A c \in connections : ~alive[c]]_vars

\* C11: a connection is removed from the registry whenever it disconnects or
\* a send to it fails, the send of the first status snapshot included: once
\* the session handler of a connection has ended, the connection is not in
\* the registry.
C11_EndedMeansUnregistered ==
    \A c \in Conns : pc[c] = "closed" => c \notin connections

\* The function c's handler gave to the executor met a fault: it raised, or
\* a part of it raised and the function went on.
Faulted(c) ==
    /\ op[c].stage = "reaped"
    /\ op[c].result # "ok" \/ op[c].body = "raised"

\* C12: a fault raised inside an action handler or its executor operation,
\* the discovery sweep included, is converted to an error event and does not
\* end the receive loop: the connection stays registered and goes on to its
\* next command.
C12_FaultBecomesErrorEvent ==
    \A c \in Clients :
        (Faulted(c) /\ alive[c])
            => /\ pc[c] = "recv"
               /\ c \in connections
               /\ Cardinality(Delivered(c)) = 1
               /\ \A i \in Delivered(c) :
                     log[c][i].ev.event \in {"error", "print_error"}

\* The message c's handler is working on was rejected at parse (no JSON, no
\* object, neither 'action' nor 'event') or at validation (print,
\* open_drawer or test_print without a printer_id).
Rejected(c) ==
    /\ cmd[c].n > 0
    /\ \/ cmd[c].shape \in {"invalid_json", "not_object", "no_keys"}
       \/ /\ cmd[c].shape = "object"
          /\ cmd[c].action \in {"print", "open_drawer", "test_print"}
          /\ cmd[c].printer_id = NoPrinter

\* C13: for a message rejected at parse or at validation no operation is
\* submitted to the executor and no hardware connection is opened.
C13_RejectedNeverReachesExecutor ==
    \A c \in Clients :
        Rejected(c)
            => /\ pc[c] # "exec"
               /\ op[c] = NoOp
               /\ ~ \E h \in hwOpen : h[2] = c /\ h[3] = cmd[c].n

\* A print without printer_id has been answered while the job of the other
\* client holds a printer connection.
C13_Witness ==
    \E c, d \in Clients :
        /\ Rejected(c) /\ pc[c] = "recv" /\ Len(log[c]) = 1
        /\ cmd[c].action = "print"
        /\ op[d].stage = "opened" /\ hwOpen # {}

\* C14: a print command without printer_id is answered with a print_error
\* event that names the job_id (the client's, or a generated one when the
\* client gave none) and carries a code that says a parameter is missing.
C14_MissingPrinterErrorHasCode ==
    \A c \in Clients :
        (/\ Handled(c) /\ alive[c]
         /\ cmd[c].shape = "object" /\ cmd[c].action = "print"
         /\ cmd[c].printer_id = NoPrinter)
            => /\ Len(log[c]) = 1
               /\ LET e == log[c][1].ev
                  IN  /\ e.event = "print_error"
                      /\ e.job_id = IF cmd[c].job_id = NoJob
                                    THEN generate_job_id(cmd[c].n)
                                    ELSE cmd[c].job_id
                      /\ "code" \in DOMAIN e

\* The message c's handler is working on is no JSON, no JSON object, or an
\* object with neither 'action' nor 'event'.
Malformed(c) ==
    cmd[c].n > 0 /\ cmd[c].shape \in {"invalid_json", "not_object", "no_keys"}

\* C15: a malformed message is answered with exactly one error reply on its
\* connection, and the connection is neither closed nor unregistered: the
\* handler is back at its receive and takes the next command.
C15_MalformedAnsweredOnce ==
    \A c \in Clients :
        (Malformed(c) /\ alive[c])
            => /\ Len(log[c]) = 1
               /\ log[c][1].sent
               /\ log[c][1].ev.event = "error"
               /\ log[c][1].ev.code = "parse_error"
               /\ pc[c] = "recv"
               /\ c \in connections
               /\ ncmd < MaxCommands => ENABLED Receive(c)

\* The first message of a client was malformed and has been answered, and
\* the client, still connected and registered, can send its next command.
C15_Witness ==
    \E c \in Clients :
        /\ Malformed(c) /\ alive[c]
        /\ cmd[c].n = 1 /\ ncmd = 1
        /\ outbox[c] = <<error_event("Invalid JSON", "parse_error")>>
        /\ pc[c] = "recv" /\ c \in connections

\* The message c's handler is working on parsed, and its action is none of
\* the seven (a message with 'event' only has no action).
UnknownAction(c) ==
    /\ cmd[c].n > 0
    /\ cmd[c].shape \in {"object", "event_only"}
    /\ cmd[c].action \notin Actions

\* C16: a parsed message whose action is not one of the seven recognized
\* ones, a message with only an event key included, is answered with exactly
\* one "unknown action" error event, and nothing is submitted to the
\* executor for it.
C16_UnknownActionAnswered ==
    \A c \in Clients :
        (UnknownAction(c) /\ alive[c])
            => /\ Len(log[c]) = 1
               /\ log[c][1].sent
               /\ log[c][1].ev.event = "error"
               /\ log[c][1].ev.code = "unknown_action"
               /\ log[c][1].ev.message = UnknownActionText(cmd[c].action)
               /\ pc[c] = "recv"
               /\ op[c] = NoOp

\* One client sent a message with an event key only, the other an action
\* the bridge does not know, and each has its error event.
C16_Witness ==
    /\ UnknownAction("ws1") /\ cmd["ws1"].shape = "event_only"
    /\ UnknownAction("ws2") /\ cmd["ws2"].action = "reboot"
    /\ outbox["ws1"] = <<error_event("Unknown action: None", "unknown_action")>>
    /\ outbox["ws2"] = <<error_event("Unknown action: reboot", "unknown_action")>>

\* C17: when a print or test_print command supplies a job_id, the terminal
\* event (print_complete or print_error) of that command carries exactly
\* that job_id; a generated id is used only when the client supplied none.
C17_JobIdPreserved ==
    \A c \in Clients :
        (cmd[c].action \in {"print", "test_print"} /\ cmd[c].job_id # NoJob)
            => \A i \in DOMAIN log[c] :
                  log[c][i].ev.event \in {"print_complete", "print_error"}
                      => log[c][i].ev.job_id = cmd[c].job_id

\* The handler of c's discover_printers resumes after its sweep.
SweepCompletes(c) ==
    /\ op[c].kind = "discover_all"
    /\ op[c].stage = "finished"
    /\ op'[c].stage = "reaped"

\* C18: a discover_printers command replaces the printer cache wholesale:
\* when it completes the cache is exactly the list of its sweep, nothing but
\* a completing sweep changes the cache, and a get_status on any connection
\* returns exactly the cache.
C18_DiscoveryReplacesCache ==
    [][/\ \A c \in Clients : SweepCompletes(c) => cached' = op[c].found
       /\ cached' # cached => \E c \in Clients : SweepCompletes(c)
       /\ \A c \in Clients :
             (cmd'[c] # cmd[c] /\ cmd'[c].action = "get_status" /\ alive[c])
                 => /\ Len(log'[c]) = 1
                    /\ log'[c][1].ev.event = "status"
                    /\ log'[c][1].ev.printers = cached]_vars

\* ws1's sweep found the USB printer, the later sweep of ws2 found the
\* network printer only, and ws2 then asked for the status: it lists the
\* network printer and nothing of the first sweep.
C18_Witness ==
    /\ cmd["ws1"].n = 1
    /\ log["ws1"] = <<[ev |-> printers_event({UsbPrinter}),
                       sent |-> TRUE]>>
    /\ cmd["ws2"].n = 3
    /\ cmd["ws2"].action = "get_status"
    /\ log["ws2"] =
          <<[ev |-> status_event({NetworkPrinter}, scanner_active),
             sent |-> TRUE]>>
    /\ cached = {NetworkPrinter}

\* The printer lists the events written for c's command carry.
ListsSeen(c) ==
    {log[c][i].ev.printers :
        i \in {j \in DOMAIN log[c] :
                  log[c][j].ev.event \in {"status", "printers"}}}

\* C19: whatever the interleaving of discover_printers commands and
\* get_status readers of several connections, the printer cache is the
\* initial empty list or the complete result of one sweep, and no reader is
\* shown a mixture of two sweeps or a part of a list.
C19_CacheIsOneSweep ==
    /\ cached \in {{}} \cup Sweeps
    /\ \A c \in Clients : ListsSeen(c) \subseteq {{}} \cup Sweeps
    /\ \A c \in Clients : \A i \in DOMAIN outbox[c] :
          outbox[c][i].event = "status"
              => outbox[c][i].printers \in {{}} \cup Sweeps

\* Two sweeps ran at the same time: the one that found the USB printer has
\* completed, the one of ws2 has found the network printer and its handler
\* has not resumed yet, and ws1 reads the status in between.
C19_Witness ==
    /\ cached = {UsbPrinter}
    /\ op["ws2"].kind = "discover_all"
    /\ op["ws2"].stage = "finished"
    /\ op["ws2"].found = {NetworkPrinter}
    /\ cmd["ws2"].n = 2
    /\ cmd["ws1"].n = 3
    /\ cmd["ws1"].action = "get_status"
    /\ ListsSeen("ws1") = {{UsbPrinter}}

\* C20: get_status is a fast path: it replies with the current contents of
\* the printer cache, submits nothing to the executor, opens no hardware
\* connection, and leaves the cache and the connection registry as they are.
C20_GetStatusFastPath ==
    [][\A c \in Clients :
          (cmd'[c] # cmd[c] /\ cmd'[c].action = "get_status")
              => /\ pc'[c] # "exec"
                 /\ op'[c] = NoOp
                 /\ \A d \in Clients \ {c} : op'[d] = op[d]
                 /\ hwOpen' = hwOpen
                 /\ cached' = cached
                 /\ alive[c] =>
                       /\ connections' = connections
                       /\ log'[c] = <<[ev |-> status_event(cached, scanner_active),
                                       sent |-> TRUE]>>]_vars

\* ws1 has its reply to get_status while the job of ws2 holds a printer
\* connection.
C20_Witness ==
    /\ cmd["ws1"].n = 2
    /\ cmd["ws1"].action = "get_status"
    /\ outbox["ws1"] = <<status_event(cached, scanner_active)>>
    /\ pc["ws1"] = "recv" /\ op["ws1"] = NoOp
    /\ op["ws2"].stage = "opened" /\ op["ws2"].handle \in hwOpen
    /\ connections = Clients

\* The function connection a gave to the pool has not returned yet.
Running(a) == pc[a] = "exec" /\ op[a].stage \in {"queued", "opened", "ran"}

\* Connection b's handler takes a get_status in this step.
TakesGetStatus(b) ==
    /\ pc[b] = "recv"
    /\ cmd'[b].n = ncmd + 1
    /\ cmd'[b].action = "get_status"

\* C21: a blocking operation that runs in the executor for one connection
\* does not hold up the messages of the others: while a's print or discovery
\* is still running, connection b can be served, and a get_status b sends
\* is answered in the slice that receives it, with a's operation still
\* running as it was.
C21_ExecutorDoesNotBlockOthers ==
    /\ [](\A a, b \in Clients :
            (a # b /\ Running(a) /\ pc[b] = "recv" /\ ncmd < MaxCommands)
                => ENABLED Receive(b))
    /\ [][\A a, b \in Clients :
            (a # b /\ Running(a) /\ TakesGetStatus(b) /\ alive[b])
                => /\ op'[a] = op[a]
                   /\ Running(a)'
                   /\ pc'[b] = "recv"
                   /\ outbox'[b] = <<status_event(cached, scanner_active)>>]_vars

\* Connection ws1's print or sweep is on its pool thread, not yet returned,
\* and ws2 has its status answer.
C21_Witness ==
    /\ Running("ws1")
    /\ op["ws1"].kind \in {"print_document", "discover_all"}
    /\ cmd["ws2"].action = "get_status"
    /\ cmd["ws2"].n = cmd["ws1"].n + 1
    /\ Len(outbox["ws2"]) = 1
    /\ outbox["ws2"][1].event = "status"

\* The job ids of the events the handler of c's command gave to a send.
JobsAnswered(c) == {log[c][i].ev.job_id : i \in DOMAIN log[c]}

\* C22: on one connection the replies come in the order of the commands: a
\* command is taken from the connection only when the handler of the command
\* before it has returned, with all its sends made, and every event sent on
\* the connection is an event of the command received last on it.
C22_RepliesInSubmissionOrder ==
    [][\A c \in Clients :
         /\ cmd'[c] # cmd[c] =>
               /\ pc[c] = "recv"
               /\ op[c].stage \in {"idle", "reaped"}
               /\ cmd'[c].n > cmd[c].n
         /\ (log'[c] # log[c] /\ log'[c] # <<>>) =>
               /\ op'[c].stage \in {"idle", "reaped"}
               /\ \A i \in DOMAIN log'[c] : log'[c][i].ev.job_id = cmd'[c].job]_vars

\* Connection ws1 sent both commands of the run; the first one went through
\* the executor or was refused, and the second one has its answer.
C22_Witness ==
    /\ cmd["ws1"].n = 2
    /\ cmd["ws2"].n = 0
    /\ Len(log["ws1"]) = 1
    /\ log["ws1"][1].sent
    /\ JobsAnswered("ws1") = {cmd["ws1"].job}
    /\ op["ws1"].stage = "reaped"

\* C23: a job in flight is not cancelled when its client goes away: a
\* function that was given to the pool runs to its end (the connection to
\* the printer opened, the operation done or failed, the connection closed)
\* and its handler comes back for it, whether or not the peer is still
\* there; and what is done for a client that is gone touches no other
\* session, and the registry only by taking that client out.
C23_DisconnectKeepsJobRunning ==
    /\ \A c \in Clients :
          (op[c].stage = "queued")
              ~> (/\ op[c].stage = "reaped"
                  /\ op[c].opens = op[c].closes
                  /\ op[c].handle \notin hwOpen
                  /\ (~alive[c] => c \notin connections))
    /\ [][\A c \in Clients :
            (~alive[c] /\ op'[c] # op[c]) =>
                /\ op[c].stage \in {"queued", "opened", "ran"} =>
                       op'[c].stage \in {"opened", "ran", "finished"}
                /\ connections' \in {connections, connections \ {c}}
                /\ \A d \in Clients \ {c} :
                      /\ pc'[d] = pc[d]
                      /\ op'[d] = op[d]
                      /\ outbox'[d] = outbox[d]
                      /\ log'[d] = log[d]]_vars

\* The print of ws1 has run to its end on its thread, its connection to the
\* printer opened and closed again, while the peer of ws1 is gone and the
\* handler has not been resumed yet; ws2 is registered and served.
C23_Witness ==
    /\ ~alive["ws1"]
    /\ pc["ws1"] = "exec"
    /\ op["ws1"].stage = "finished"
    /\ op["ws1"].result = "ok"
    /\ op["ws1"].opens = 1
    /\ op["ws1"].closes = 1
    /\ "ws2" \in connections
    /\ pc["ws2"] = "recv"

\* The capture thread got a burst in this step.
Fed == scanner'.n = scanner.n + 1

\* The time between the key events of this step and the ones before.
Elapsed == scanner'.last - scanner.last

\* C24: a line terminator ('\n' or '\r') that finds fewer than 4 characters
\* in the buffer reports no scan and leaves the buffer empty.
C24_ShortBufferDropped ==
    [][(/\ Fed
        /\ scanner'.keys \in {<<"\n">>, <<"\r">>}
        /\ Len(scanner.buffer) < 4)
          => /\ scanner'.out = scanner.out
             /\ scanner'.buffer = <<>>]_vars

\* Three keys, then within the timeout a carriage return: nothing was
\* reported and the buffer is empty.
C24_Witness ==
    /\ scanner.n = 2
    /\ scanner.keys = <<"\r">>
    /\ scanner.held = <<"5", "9", "0">>
    /\ scanner.last = 2 * Timeout + 1
    /\ scanner.out = <<>>
    /\ scanner.buffer = <<>>

\* The keys of the last burst that stay in the buffer: none after a line
\* terminator, else all of them.
KeptKeys(keys) == IF keys[Len(keys)] \in Terminators THEN <<>> ELSE keys

\* C25: when the key events of a burst come more than the timeout after the
\* ones before, what was in the buffer is given up: nothing is reported for
\* it, and the detector goes on with the keys that came after the gap only,
\* so that no later scan holds a key from before the gap.
C25_GapDiscardsBuffer ==
    [][(Fed /\ Elapsed > Timeout)
          => /\ scanner'.out = scanner.out
             /\ scanner'.buffer = KeptKeys(scanner'.keys)]_vars

\* Four keys were in the buffer when the next key came, later than the
\* timeout after them: the buffer holds the late key only.
C25_Witness ==
    /\ scanner.n = 2
    /\ scanner.last = 2 * (Timeout + 1)
    /\ scanner.held = <<"A", "1", "B", "2">>
    /\ scanner.keys = <<"5">>
    /\ scanner.buffer = <<"5">>
    /\ scanner.out = <<>>

\* The value of the scenario of scanner.py: an EAN-13 number.
Ean13Sample ==
    <<"5", "9", "0", "1", "2", "3", "4", "1", "2", "3", "4", "5", "7">>

\* No character of `value` is whitespace or a line terminator.
Solid(value) == \A i \in DOMAIN value : value[i] \notin Whitespace

\* C26: keys that come within the timeout of each other are added to the
\* buffer and nothing is reported for them; a line terminator that comes
\* within the timeout after at least 4 keys, none of them whitespace,
\* reports exactly one scan, whose value is those keys and whose kind is the
\* one _detect_barcode_type gives them ("5901234123457": EAN13).
C26_CompleteScanReportedOnce ==
    [][Fed =>
         /\ (/\ scanner'.keys[1] \notin Terminators
             /\ (scanner.buffer = <<>> \/ Elapsed <= Timeout))
               => /\ scanner'.out = scanner.out
                  /\ scanner'.buffer = scanner.buffer \o scanner'.keys
         /\ (/\ scanner'.keys[1] \in Terminators
             /\ Elapsed <= Timeout
             /\ Len(scanner.buffer) >= 4
             /\ Solid(scanner.buffer))
               => /\ Len(scanner'.out) = Len(scanner.out) + 1
                  /\ SubSeq(scanner'.out, 1, Len(scanner.out)) = scanner.out
                  /\ scanner'.out[Len(scanner'.out)].value = scanner.buffer
                  /\ scanner'.out[Len(scanner'.out)].type =
                         detect_barcode_type(scanner.buffer)
                  /\ scanner.buffer = Ean13Sample =>
                         scanner'.out[Len(scanner'.out)].type = "EAN13"]_vars

\* The thirteen digits came in one burst into the empty buffer and the
\* newline within the timeout after them: one scan was reported, the number
\* as an EAN13.
C26_Witness ==
    /\ scanner.n = 2
    /\ scanner.last = 2 * Timeout + 1
    /\ scanner.held = Ean13Sample
    /\ scanner.keys = <<"\n">>
    /\ scanner.out = <<[value |-> Ean13Sample, type |-> "EAN13"]>>

\* The six kinds of the classification.
Kinds == {"EAN13", "EAN8", "UPC-A", "GTIN-14", "CODE39", "CODE128"}

\* The rule of the classification, by cases: a value of 13, 8, 12 or 14
\* digits is an EAN13, EAN8, UPC-A or GTIN-14; any other value of at most
\* 43 characters that are, in upper case, digits, capitals or one of
\* - . space $ / + % is a CODE39; everything else is a CODE128.
Classified(value) ==
    LET digits == Len(value) > 0
                    /\ {value[i] : i \in DOMAIN value} \subseteq Digits
        code39 == {upper(value[i]) : i \in DOMAIN value} \subseteq Code39Chars
    IN  CASE digits /\ Len(value) = 13 -> "EAN13"
          [] digits /\ Len(value) = 8 -> "EAN8"
          [] digits /\ Len(value) = 12 -> "UPC-A"
          [] digits /\ Len(value) = 14 -> "GTIN-14"
          [] OTHER -> IF Len(value) <= 43 /\ code39
                      THEN "CODE39" ELSE "CODE128"

\* C27: the classification gives every value exactly one of the six kinds,
\* the one of the rule: every scan reported carries the kind the rule gives
\* its value, and every buffer of at least 4 characters that a line
\* terminator finds in time is classified and reported, none is refused.
C27_ClassifyFollowsRule ==
    /\ [](\A i \in DOMAIN scanner.out :
            /\ scanner.out[i].type \in Kinds
            /\ scanner.out[i].type = Classified(scanner.out[i].value))
    /\ [][(/\ Fed
           /\ scanner'.keys[1] \in Terminators
           /\ Elapsed <= Timeout
           /\ Len(scanner.buffer) >= 4)
            => /\ Len(scanner'.out) = Len(scanner.out) + 1
               /\ scanner'.out[Len(scanner'.out)].value = strip(scanner.buffer)
               /\ scanner'.out[Len(scanner'.out)].type =
                      Classified(strip(scanner.buffer))]_vars

\* The scan "AB-12.34" was reported as a CODE39.
C27_Witness ==
    /\ scanner.held = <<"A", "B", "-", "1", "2", ".", "3", "4">>
    /\ scanner.keys \in {<<"\n">>, <<"\r">>}
    /\ scanner.out =
          <<[value |-> <<"A", "B", "-", "1", "2", ".", "3", "4">>,
             type |-> "CODE39"]>>

\* The id of a transport and its parameters, in the format discovery uses
\* for that transport.
Serialized(t) ==
    CASE t.ptype = "usb" -> printer_id_usb(t.vendor_id, t.product_id)
      [] t.ptype = "network" -> printer_id_network(t.host, t.port)
      [] t.ptype = "bluetooth" -> printer_id_bluetooth(t.address)
      [] OTHER -> <<>>

\* connect_printer has parsed the printer_id of c's command.
Parsed(c) ==
    /\ op[c].kind \in HardwareKinds
    /\ op[c].stage \in {"opened", "ran", "finished", "reaped"}

\* C28: every printer_id that discovery makes is parsed without an error,
\* the transport and parameters parsed from it give the same id back when
\* they are written in discovery's format, and no two ids that discovery
\* makes are parsed to the same transport and parameters (a property of the
\* ids alone, looked at before the first command).
C28_PrinterIdRoundTrip ==
    /\ \A c \in Clients :
          (Parsed(c) /\ op[c].printer \in ProducedIds)
              => /\ op[c].target.ok
                 /\ Serialized(op[c].target) = op[c].printer
    /\ ncmd = 0 =>
          \A a, b \in ProducedIds :
              parse_printer_id(a) = parse_printer_id(b) => a = b

\* The id of a printer found by mDNS at an IPv6 address was parsed for a
\* command of ws1: host fe80::1, port 631.
C28_Witness ==
    /\ Parsed("ws1")
    /\ op["ws1"].stage = "opened"
    /\ op["ws1"].printer = printer_id_network(Ip6Sample, 631)
    /\ op["ws1"].target = Target("network", -1, -1, Ip6Sample, 631, <<>>)
    /\ Serialized(op["ws1"].target) = op["ws1"].printer

\* The shape of a printer_id: usb:<hex-vendor>:<hex-product>, or
\* network:<host>:<port> with a host and a decimal port, or
\* bluetooth:<address> with an address.
Grammatical(printer_id) ==
    LET parts == split1(printer_id, ":")
        rest == IF Len(parts) > 1 THEN parts[2] ELSE <<>>
        fields == split(rest, ":")
        host_port == rsplit1(rest, ":")
    IN  \/ /\ parts[1] = UsbPrefix
           /\ Len(fields) = 2
           /\ int(fields[1], 16) >= 0
           /\ int(fields[2], 16) >= 0
        \/ /\ parts[1] = NetworkPrefix
           /\ Len(host_port) = 2
           /\ host_port[1] # <<>>
           /\ int(host_port[2], 10) >= 0
        \/ /\ parts[1] = BluetoothPrefix
           /\ rest # <<>>

\* C29: a print, test_print or open_drawer command whose printer_id has not
\* the shape of a printer_id is refused: no connection is opened for it, and
\* its handler sends an error event.
C29_MalformedIdRejected ==
    \A c \in Clients :
        (op[c].kind \in HardwareKinds /\ ~Grammatical(op[c].printer))
            => /\ op[c].opens = 0
               /\ op[c].stage \notin {"opened", "ran"}
               /\ (op[c].stage = "reaped" /\ log[c] # <<>>) =>
                      log[c][1].ev.event \in {"print_error", "error"}

\* C30: to register a connection that is in the registry and to unregister
\* one that is not leaves the registry as it is, without an error: add and
\* discard of a present and of an absent connection give the registry
\* back, and a session that ends after a broadcast has taken its connection
\* out of the registry ends as any other and changes nothing in it.
C30_RegistryIdempotent ==
    /\ [](\A c \in Conns :
            /\ c \in connections => RegistryAdd(c) = connections
            /\ c \notin connections => RegistryDiscard(c) = connections
            /\ c \in RegistryAdd(c)
            /\ c \notin RegistryDiscard(c))
    /\ [][\A c \in Conns :
            (pc[c] = "recv" /\ pc'[c] = "closed" /\ c \notin connections)
                => connections' = connections]_vars

\* A broadcast found the peer of ws1 gone and took ws1 out of the registry;
\* the session of ws1 ended after that, with the discard of server.py:144,
\* and the other connections are registered as before.
C30_Witness ==
    /\ bc[1].state = "done"
    /\ bc[1].removed = {"ws1"}
    /\ pc["ws1"] = "closed"
    /\ connections = {"ws2", "ws3"}

\* The capture of the scanner has failed: the manager was started and has
\* not been stopped, and its thread has returned or has ended with an
\* exception.
CaptureFailed ==
    /\ scanner.manager
    /\ server.phase = "serving"
    /\ scanner.thread \in {"returned", "raised"}

\* C31: when the capture of the scanner fails (no capture library, no
\* scanner device, no permission, an error of the hook), scanning is
\* unavailable and is reported so, and the rest of the system goes on: the
\* server has started, a new connection is accepted, a connection at its
\* receive is served, and every recognised command of a client that stays is
\* answered.
C31_CaptureFailureHarmless ==
    CaptureFailed =>
        /\ ~scanner_active
        /\ \A c \in Clients :
              /\ pc[c] = "new" => ENABLED Register(c)
              /\ (pc[c] = "recv" /\ ncmd < MaxBootCommands)
                    => ENABLED ReceiveBoot(c)
              /\ (Handled(c) /\ cmd[c].action \in Actions /\ alive[c])
                    => Cardinality(Delivered(c)) = 1

\* The events that report a success and the ones that report an error.
SuccessEvents == {"print_complete", "drawer_opened", "keyboard_toggled", "printers"}
ErrorEvents == {"print_error", "error"}

\* The event that reports the success of c's operation: print_complete with
\* the job_id and nothing else, drawer_opened with the printer_id of the
\* command, keyboard_toggled with its `visible`, printers with the list found.
SuccessEvent(c) ==
    CASE op[c].kind \in {"print_document", "test_print"} ->
            [event |-> "print_complete", job_id |-> cmd[c].job]
      [] op[c].kind = "open_drawer" ->
            [event |-> "drawer_opened", printer_id |-> cmd[c].printer_id]
      [] op[c].kind = "_toggle_keyboard" ->
            [event |-> "keyboard_toggled", visible |-> cmd[c].visible]
      [] op[c].kind = "discover_all" ->
            [event |-> "printers", printers |-> op[c].found]
      [] OTHER -> [event |-> None]

\* C32: every operation that went through the executor ends in exactly one
\* outcome: when it returned, the handler emits the success event of its
\* kind (for send_notification the protocol has none), when it raised, an
\* error event (print_error with the job_id for print and test_print), and
\* never a success event and an error event for the same operation.
C32_OneMappedOutcome ==
    \A c \in Clients :
        op[c].stage = "reaped" =>
            /\ Emitted(c) \cap SuccessEvents = {}
                  \/ Emitted(c) \cap ErrorEvents = {}
            /\ (op[c].result = "ok" /\ op[c].kind # "_show_notification")
                  => /\ Len(log[c]) = 1
                     /\ log[c][1].ev = SuccessEvent(c)
            /\ op[c].result # "ok"
                  => /\ Len(log[c]) = 1
                     /\ log[c][1].ev.event \in ErrorEvents
                     /\ op[c].kind \in {"print_document", "test_print"}
                           => /\ log[c][1].ev.event = "print_error"
                              /\ log[c][1].ev.job_id = cmd[c].job

\* The status events written to c that its peer has to read, and the ones
\* the handler of c's command gave to a send.
StatusEvents(c) ==
    {outbox[c][i] : i \in {j \in DOMAIN outbox[c] :
                              outbox[c][j].event = "status"}}
    \cup {log[c][i].ev : i \in {j \in DOMAIN log[c] :
                                   log[c][j].ev.event = "status"}}

\* C33: the Android server speaks the protocol of the desktop server: with
\* the same messages and the same outcomes of the hardware, every step of
\* the Android server is the step the desktop server makes (the same events
\* with the same fields, the same cache), and every step of the desktop
\* server is the step of the Android server but for the scanner field of
\* status, which the Android server always reports as false.
C33_AndroidSameProtocol ==
    /\ [][/\ server.kind = "android" => DesktopNext
          /\ server.kind = "desktop" => AndroidNextWith(scanner_active)]_vars
    /\ [](server.kind = "android" =>
             \A c \in EquivClients : \A e \in StatusEvents(c) : ~e.scanner)

\* On the Android server a sweep found the USB printer, and the third
\* command, get_status, was answered with the list of the sweep and scanner
\* false.
C33_Witness ==
    /\ server.kind = "android"
    /\ cached = {UsbPrinter}
    /\ cmd["ws1"].n = 3
    /\ cmd["ws1"].action = "get_status"
    /\ log["ws1"] = <<[ev |-> status_event({UsbPrinter}, FALSE), sent |-> TRUE]>>

\* C34: a line terminator that comes more than the timeout after the key
\* before it reports no scan, however long the buffer was: the buffer is
\* given up before the terminator is looked at, and it is empty afterwards.
C34_LateTerminatorReportsNothing ==
    [][(/\ Fed
        /\ scanner'.keys \in {<<"\n">>, <<"\r">>}
        /\ Elapsed > Timeout)
          => /\ scanner'.out = scanner.out
             /\ scanner'.buffer = <<>>
             /\ scanner'.thread = scanner.thread]_vars

\* The thirteen digits of a barcode were in the buffer when the newline
\* came, later than the timeout after them: nothing was reported and the
\* buffer is empty.
C34_Witness ==
    /\ scanner.n = 2
    /\ scanner.last = 2 * (Timeout + 1)
    /\ scanner.held = Ean13Sample
    /\ scanner.keys = <<"\n">>
    /\ scanner.out = <<>>
    /\ scanner.buffer = <<>>

\* C35: every scan the detector reports has a value of at least one
\* character, whatever characters were fed, blanks and other whitespace
\* included.
C35_ScanValueNonEmpty ==
    \A i \in DOMAIN scanner.out : Len(scanner.out[i].value) > 0

\* The function c's handler gave to the pool is with the pool, or has ended
\* and waits for the handler to come back for it.
InFlight(c) == op[c].stage \in {"queued", "opened", "ran", "finished"}

\* C36: a connection has at most one command in flight: its next message is
\* read and dispatched only when the handler of the message before has
\* returned, so the connection has an operation with the pool only while
\* its handler waits for it, and never two printer connections open at the
\* same time.
C36_OneCommandInFlight ==
    /\ [](\A c \in Clients :
            /\ InFlight(c) <=> pc[c] = "exec"
            /\ \A g, h \in hwOpen : (g[2] = c /\ h[2] = c) => g = h
            /\ \A h \in hwOpen : h[2] = c => h[3] = cmd[c].n)
    /\ [][\A c \in Clients :
            cmd'[c] # cmd[c] =>
                /\ pc[c] = "recv"
                /\ ~InFlight(c)
                /\ \A h \in hwOpen : h[2] # c
                /\ cmd'[c].n = ncmd + 1]_vars

\* Both commands of the run came from ws1: the first one went through the
\* executor and was answered, and the second one holds the only open
\* connection to a printer.
C36_Witness ==
    /\ cmd["ws1"].n = 2
    /\ cmd["ws2"].n = 0
    /\ pc["ws1"] = "exec"
    /\ op["ws1"].stage = "opened"
    /\ hwOpen = {<<op["ws1"].printer, "ws1", 2>>}
    /\ op["ws1"].opens = 1

\* The handler of connection c goes on after its discovery sweep.
DiscoveryResumes(c) ==
    /\ op[c].kind = "discover_all"
    /\ op[c].stage = "finished"
    /\ op'[c].stage = "reaped"

\* C37: only discover_printers modifies the cache: every step of the server
\* that is not the handler of discover_printers going on after its sweep
\* (a message received, answered at once or rejected, a print, drawer,
\* notification or keyboard operation and its reply, failed or not, a scan
\* and the slices of its broadcast, a connection registered or
\* unregistered) leaves the cache as it was.
C37_OnlyDiscoveryWritesCache ==
    [][(\A c \in Clients : ~DiscoveryResumes(c)) => cached' = cached]_vars

\* ws1 ran a sweep that found a printer, then a print that failed; a scan
\* was broadcast to the end and ws2 was unregistered: the cache still holds
\* the printer.
C37_Witness ==
    /\ cached # {}
    /\ ncmd = 2
    /\ cmd["ws1"].n = 2
    /\ cmd["ws1"].action = "print"
    /\ op["ws1"].kind = "print_document"
    /\ op["ws1"].stage = "reaped"
    /\ op["ws1"].result # "ok"
    /\ bc[1].state = "done"
    /\ pc["ws2"] = "closed"
    /\ "ws2" \notin connections

\* C38: after a line terminator has been fed the buffer is empty, also when
\* the callback that forwards the scan raised: the characters of a scan
\* that could not be forwarded are not kept for the next scan.
C38_BufferEmptyAfterTerminator ==
    (scanner.n > 0 /\ scanner.keys[Len(scanner.keys)] \in Terminators) =>
        scanner.buffer = <<>>

\* C39: the scanner flag of the status snapshots and of the health probe is
\* true only while the capture thread is there (started, listening or
\* monitoring): it is false when the capture thread has returned or was
\* ended by an exception, and false after stop().
C39_FlagOnlyWhileListening ==
    /\ scanner_active => scanner.thread \in {"starting", "listening", "monitor"}
    /\ server.phase = "stopped" => ~scanner_active

====
